---- MODULE Spec2Model ----
(***************************************************************************)
(* Acquisition provenance resolver of DynastyRosterTracker.                *)
(*                                                                         *)
(* The module models src/lib/types.ts (getPlayerAcquisitions,              *)
(* getLeagueHistory, getLeagueDetails and the per-season fetches) and      *)
(* src/lib/persistentCache.ts (saveToCache, getFromCache).                 *)
(*                                                                         *)
(* JavaScript runs one synchronous segment at a time: an action of the     *)
(* model is the code between two awaits, and the signal can only be        *)
(* aborted while the call is suspended at an await (or before it starts).  *)
(*                                                                         *)
(* The in-process caches of getLeagueDrafts, getDraftPicks and             *)
(* getLeagueTransactions are not state of the model: the data source does  *)
(* not change during a run, so a hit returns what the request would have   *)
(* returned.                                                               *)
(*                                                                         *)
(* Time: the clock `now` counts hours (DEFAULT_CACHE_DURATION_MS is one    *)
(* hour); transaction and draft timestamps use their own scale, YearTicks  *)
(* ticks per season.                                                       *)
(***************************************************************************)
EXTENDS Integers, Sequences, FiniteSets, TLC

VARIABLES
    world,          \* the upstream data source (Sleeper API), fixed for a run
    now,            \* Date.now(), in hours
    cache,          \* localStorage: key -> entry written by saveToCache
    pc,             \* where the running call is suspended
    callNo,         \* number of getPlayerAcquisitions calls started so far
    aborted,        \* signal.aborted of the current (or next) call
    failures,       \* non-cancellation fetch failures injected so far
    acquisitions,   \* the accumulating result map of the running call
    leagueDetails,  \* result of getLeagueDetails(leagueId)
    history,        \* getLeagueHistory: the nodes pushed so far (newest first)
    currentLeagueId,\* getLeagueHistory: the league to fetch next (0 = null)
    visitedLeagueIds,
    fetchCount,     \* getLeagueHistory: league id -> requests of the loop
    retryCount,     \* getLeagueHistory: requests of the error fallback
    walkResult,     \* what getLeagueHistory returned
    tasks,          \* historicalDataPromises: one result per history node
    cls,            \* the classifier's four variables
    events,         \* the fusion events not yet applied
    lastEvent,      \* the event the latest fusion step was about
    userStartupDraftPlayerCount,
    outcome,        \* per call: how it ended
    result,         \* per call: the map it returned
    log,            \* per call: the upstream failures it met
    got,            \* what the latest getFromCache of a caller returned
    currentWeek,    \* getLeagueTransactions: the week to query next
    weekly,         \* getLeagueTransactions: per queried week, whether the
                    \* answer held transactions
    currentYear,    \* getUserSeasons: new Date().getFullYear()
    userLeagueYears,\* the years in which the user has a league upstream
    potentialYears, \* getUserSeasons: the years still to probe
    probedYears,    \* the years getUserLeagues was asked for, in order
    availableYears, \* getUserSeasons: the years found so far
    sortedYears,    \* what getUserSeasons returned
    mounted,        \* PlayerTable: the component is mounted
    fetches,        \* PlayerTable: the fetchPlayerData calls started, each
                    \* with its controller's signal and its position
    players,        \* PlayerTable state: the rows and the fetch that set them
    error,          \* PlayerTable state
    isFetchingTableData,
    updates,        \* the setter and onPlayersLoaded calls made so far
    controllers,    \* UserInputForm: per AbortController created, whether
                    \* it has been aborted
    backgroundLoadAbortControllerRef,  \* 0 = null, else the controller held
    effectController,   \* the controller the cleanup of the league effect
                        \* closes over (0 = the effect left no cleanup)
    form,           \* UserInputForm: the values of its useState hooks
    submit,         \* the running handleSubmit: its controller and await
    loads           \* the controllers whose loadAcquisitionsForLeague
                    \* promise is pending

vars == <<world, now, cache, pc, callNo, aborted, failures, acquisitions,
          leagueDetails, history, currentLeagueId, visitedLeagueIds,
          fetchCount, retryCount, walkResult, tasks, cls, events, lastEvent,
          userStartupDraftPlayerCount, outcome, result, log, got,
          currentWeek, weekly, currentYear, userLeagueYears, potentialYears,
          probedYears, availableYears, sortedYears, mounted, fetches,
          players, error, isFetchingTableData, updates, controllers,
          backgroundLoadAbortControllerRef, effectController, form, submit,
          loads>>

weekVars == <<currentWeek, weekly>>

seasonVars == <<currentYear, userLeagueYears, potentialYears, probedYears,
                availableYears, sortedYears>>

tableVars == <<mounted, fetches, players, error, isFetchingTableData, updates>>

formVars == <<controllers, backgroundLoadAbortControllerRef, effectController,
              form, submit, loads>>

uiVars == <<seasonVars, tableVars, formVars>>

-----------------------------------------------------------------------------
(* Bounds of the model *)

MaxSeasons == 2      \* leagues of a lineage in the classifier and fuser runs
MaxCalls == 2        \* calls of getPlayerAcquisitions in one run
MaxFailures == 2     \* non-cancellation fetch failures in one run
MaxClock == 1        \* hours the clock may advance
MaxChain == 12       \* leagues in a chain walked by getLeagueHistory alone
MaxPick == 30        \* overall pick numbers of the slot computation
MaxTeams == 13       \* team counts of the slot computation
MaxDuration == 2     \* longest duration handed to saveToCache, in hours
MaxYearsOn == 2      \* years between 2017 and the current year
MaxFetches == 3      \* runs of the effect of PlayerTable
MaxControllers == 4  \* AbortControllers created by UserInputForm

(* Program constants *)

LAST_WEEK == 18                     \* currentWeek <= 18
EARLY_WEEKS == 4                    \* currentWeek > 4
HISTORY_LIMIT == 10                 \* history.length < 10
DEFAULT_TEAMS == 12                 \* leagueDetails?.total_rosters || 12
REDRAFT_TYPE == 0                   \* settings.type === 0
DEFAULT_CACHE_DURATION_HOURS == 1   \* 60 * 60 * 1000 ms
FIRST_YEAR == 2017                  \* currentYear - 2017 + 1, yearNumber < 2017

(* Encodings *)

NaN == -1            \* Number.NaN (all real timestamps are >= 0)
JsonNull == -2       \* null, what JSON.stringify writes for NaN
EmptySeason == 0     \* season: ''  (real season labels are >= 1)
NoLeague == 0        \* previous_league_id: null
YearTicks == 10      \* timestamp ticks per season

UserId == "u"
OtherUserId == "o"
UserRosterId == 1
OtherRosterId == 2

RosterPlayers == {"p1", "p2"}       \* roster.players passed to the resolver
Players == RosterPlayers \cup {"p3"}\* p3 is on nobody's current roster

-----------------------------------------------------------------------------
(* JavaScript number semantics used by the resolver *)

\* !x for a timestamp: 0, NaN, null and undefined are falsy
Falsy(t) == t = 0 \/ t = NaN \/ t = JsonNull

\* a > b : false when either side is NaN
JsGreater(a, b) == a # NaN /\ b # NaN /\ a > b

\* new Date(parseInt(season), 5, 1).getTime(): June 1 of the season; NaN for ''
JuneFirst(season) == IF season = EmptySeason THEN NaN ELSE season * YearTicks

\* date.toLocaleDateString(...): the calendar day of a timestamp
LocaleDate(t) == t \div 2

\* JSON.parse(JSON.stringify(x)) of an acquisitions map: NaN becomes null
JsonRoundTrip(m) ==
    [p \in DOMAIN m |->
        [m[p] EXCEPT !.timestamp = IF @ = NaN THEN JsonNull ELSE @]]

-----------------------------------------------------------------------------
(* Pick slot, lines 517-519 *)

TeamsInLeague(details) ==
    IF details.ok /\ details.total_rosters # 0
    THEN details.total_rosters ELSE DEFAULT_TEAMS

\* the slot without the case of a pick that closes a round
PickInRoundPlainModulo(pick_no, teamsInLeague) == pick_no % teamsInLeague

PickInRound(pick_no, teamsInLeague) ==
    IF pick_no % teamsInLeague = 0 THEN teamsInLeague
    ELSE pick_no % teamsInLeague

RECURSIVE Digits(_)
Digits(n) == IF n < 10 THEN <<n>> ELSE Digits(n \div 10) \o <<n % 10>>

\* pickInRound < 10 ? `0${pickInRound}` : pickInRound.toString()
FormattedPickNumber(pickInRound) ==
    IF pickInRound < 10 THEN <<0>> \o Digits(pickInRound)
    ELSE Digits(pickInRound)

-----------------------------------------------------------------------------
(* Acquisition records: { type, details, timestamp } *)

NoDetails ==
    [fmt |-> "", season |-> EmptySeason, round |-> 0, slot |-> <<>>,
     bid |-> 0, date |-> 0]

UnknownRecord == [type |-> "Unknown", details |-> NoDetails, timestamp |-> 0]

\* line 562
PreviousOwnerRecord ==
    [type |-> "Previous Owner",
     details |-> [NoDetails EXCEPT !.fmt = "On roster when user took over team"],
     timestamp |-> 0]

\* lines 377-380: one Unknown record per roster player
InitialAcquisitions == [p \in RosterPlayers |-> UnknownRecord]

NoPick == [player_id |-> "", picked_by |-> "", round |-> 0, pick_no |-> 0]
\* adds maps each player to the roster that received him (0: not in adds)
NoTx ==
    [type |-> "", malformed |-> FALSE, roster_ids |-> {},
     adds |-> [p \in Players |-> 0], created |-> 0, waiver_bid |-> 0]
NoDraft == 0

-----------------------------------------------------------------------------
(* Startup-draft classifier, lines 440-483 *)

\* A draft identifier is a string. draft_id is the number it reads as when
\* it is numeric and the number that tells the draft from the others when
\* it is not; id_text is the word of line 457 that a non-numeric identifier
\* contains ("" for a numeric identifier).
IdWords == {"startup", "initial"}

\* Number(draft.draftInfo.draft_id)
DraftNumber(draft) == IF draft.id_text = "" THEN draft.draft_id ELSE NaN

\* the comparator of line 453 returns a negative number; a - b is NaN when
\* either side is, and sort takes NaN for 0
ComparesBefore(a, b) ==
    /\ DraftNumber(a) # NaN
    /\ DraftNumber(b) # NaN
    /\ DraftNumber(a) < DraftNumber(b)

\* drafts.sort((a, b) => Number(a.draft_id) - Number(b.draft_id)): stable.
\* With a comparator that answers NaN the order of three drafts or more
\* depends on the engine; the seasons of the model hold two at most.
RECURSIVE InsertDraft(_, _)
InsertDraft(sorted, d) ==
    IF sorted = <<>> THEN <<d>>
    ELSE IF ComparesBefore(d, sorted[Len(sorted)])
         THEN InsertDraft(SubSeq(sorted, 1, Len(sorted) - 1), d)
              \o <<sorted[Len(sorted)]>>
         ELSE sorted \o <<d>>

RECURSIVE SortDrafts(_)
SortDrafts(ds) ==
    IF ds = <<>> THEN <<>>
    ELSE InsertDraft(SortDrafts(SubSeq(ds, 1, Len(ds) - 1)), ds[Len(ds)])

\* draft.picks.some(p => p.picked_by === userId)
UserParticipated(draft) ==
    \E i \in 1..Len(draft.picks) : draft.picks[i].picked_by = UserId

\* the test of line 457 without the words of the identifier
IsStartupLikeByTypeOnly(draft) == draft.type = "startup"

\* draftInfo.type === 'startup' || draft_id contains 'startup' or 'initial'
IsStartupLike(draft) == draft.type = "startup" \/ draft.id_text \in IdWords

\* lines 454-465
RECURSIVE DesignateLoop(_, _, _)
DesignateLoop(sortedDrafts, i, designated) ==
    IF i > Len(sortedDrafts) THEN designated
    ELSE IF UserParticipated(sortedDrafts[i])
         THEN IF IsStartupLike(sortedDrafts[i])
              THEN sortedDrafts[i].draft_id
              ELSE DesignateLoop(sortedDrafts, i + 1,
                       IF designated = NoDraft THEN sortedDrafts[i].draft_id
                       ELSE designated)
         ELSE DesignateLoop(sortedDrafts, i + 1, designated)

\* lines 466-476
FirstParticipated(sortedDrafts) ==
    IF \E i \in 1..Len(sortedDrafts) : UserParticipated(sortedDrafts[i])
    THEN sortedDrafts[CHOOSE i \in 1..Len(sortedDrafts) :
                          /\ UserParticipated(sortedDrafts[i])
                          /\ \A j \in 1..(i - 1) :
                                 ~UserParticipated(sortedDrafts[j])].draft_id
    ELSE NoDraft

DesignatedStartupDraft(drafts) ==
    LET sortedDrafts == SortDrafts(drafts)
        first == DesignateLoop(sortedDrafts, 1, NoDraft)
    IN  IF first = NoDraft /\ Len(sortedDrafts) > 0
        THEN FirstParticipated(sortedDrafts) ELSE first

InitialClassification ==
    [foundUserInLineage |-> FALSE,
     userEarliestSeason |-> EmptySeason,
     hasEarliest |-> FALSE,
     designatedDraftId |-> NoDraft,
     draftsExistBefore |-> FALSE]

\* the loop without the test of line 450: every season with a roster of
\* the user becomes the earliest season in turn
ClassifySeasonLatest(c, histData) ==
    IF histData.roster # "none"
    THEN [c EXCEPT !.foundUserInLineage = TRUE,
                   !.userEarliestSeason = histData.season,
                   !.hasEarliest = TRUE,
                   !.designatedDraftId =
                       DesignatedStartupDraft(histData.drafts)]
    ELSE IF Len(histData.drafts) > 0 /\ ~c.foundUserInLineage
         THEN [c EXCEPT !.draftsExistBefore = TRUE]
         ELSE c

\* one iteration of the loop at line 445
ClassifySeason(c, histData) ==
    IF histData.roster # "none"
    THEN IF ~c.foundUserInLineage
         THEN [c EXCEPT !.foundUserInLineage = TRUE,
                        !.userEarliestSeason = histData.season,
                        !.hasEarliest = TRUE,
                        !.designatedDraftId =
                            DesignatedStartupDraft(histData.drafts)]
         ELSE c
    ELSE IF Len(histData.drafts) > 0 /\ ~c.foundUserInLineage
         THEN [c EXCEPT !.draftsExistBefore = TRUE]
         ELSE c

RECURSIVE ClassifyFrom(_, _, _)
ClassifyFrom(data, i, c) ==
    IF i > Len(data) THEN c
    ELSE ClassifyFrom(data, i + 1, ClassifySeason(c, data[i]))

Classify(data) == ClassifyFrom(data, 1, InitialClassification)

-----------------------------------------------------------------------------
(* Acquisition fuser, lines 485-557 *)

\* the redraft test against the wrong settings type
IsRedraftTypeOne(details) == details.ok /\ details.type = 1

IsRedraft(details) == details.ok /\ details.type = REDRAFT_TYPE

\* the draft type without the look at drafts held before the user joined
DraftTypeIgnoringEarlierDrafts(isRedraft, c, season, draft_id) ==
    IF isRedraft THEN "Startup Draft"
    ELSE IF /\ c.hasEarliest
            /\ season = c.userEarliestSeason
            /\ draft_id = c.designatedDraftId
         THEN "Startup Draft"
         ELSE "Rookie Draft"

\* lines 508-513
DraftType(isRedraft, c, season, draft_id) ==
    IF isRedraft THEN "Startup Draft"
    ELSE IF /\ ~c.draftsExistBefore
            /\ c.hasEarliest
            /\ season = c.userEarliestSeason
            /\ draft_id = c.designatedDraftId
         THEN "Startup Draft"
         ELSE "Rookie Draft"

\* a pick that is applied whatever the record holds
PickAppliesAlways(acq, pick) == TRUE

\* line 516
PickApplies(acq, pick) ==
    IF pick.player_id \in DOMAIN acq
    THEN acq[pick.player_id].type = "Unknown"
         \/ Falsy(acq[pick.player_id].timestamp)
    ELSE TRUE

\* lines 517-524
PickRecord(details, season, draftType, pick) ==
    LET slot == FormattedPickNumber(
                    PickInRound(pick.pick_no, TeamsInLeague(details)))
    IN  [type |-> draftType,
         details |->
            IF draftType = "Startup Draft"
            THEN [NoDetails EXCEPT !.fmt = "round.slot",
                                   !.round = pick.round, !.slot = slot]
            ELSE [NoDetails EXCEPT !.fmt = "season round.slot",
                                   !.season = season,
                                   !.round = pick.round, !.slot = slot],
         timestamp |-> JuneFirst(season)]

Put(acq, player, rec) ==
    [p \in DOMAIN acq \cup {player} |-> IF p = player THEN rec ELSE acq[p]]

ApplyPick(acq, details, ev) ==
    IF PickApplies(acq, ev.pick)
    THEN Put(acq, ev.pick.player_id,
             PickRecord(details, ev.season, ev.draftType, ev.pick))
    ELSE acq

\* the replacement test without the comparison of the dates: the transaction
\* that arrives last is kept
TxReplacesLastArrival(acq, player, tx) == TRUE

\* the replacement test with >= in place of >
TxReplacesOrEqual(acq, player, tx) ==
    \/ player \notin DOMAIN acq
    \/ acq[player].type = "Unknown"
    \/ /\ ~Falsy(tx.created)
       /\ \/ Falsy(acq[player].timestamp)
          \/ acq[player].timestamp # NaN /\ tx.created >= acq[player].timestamp

\* line 537
TxReplaces(acq, player, tx) ==
    \/ player \notin DOMAIN acq
    \/ acq[player].type = "Unknown"
    \/ /\ ~Falsy(tx.created)
       /\ \/ Falsy(acq[player].timestamp)
          \/ JsGreater(tx.created, acq[player].timestamp)

\* the record of a transaction whose residual kind is plain "Unknown"
TxRecordResidualUnknown(tx) ==
    [type |-> CASE tx.type = "trade" -> "Trade"
                [] tx.type = "waiver" -> "Waiver Wire"
                [] tx.type = "free_agent" -> "Free Agency"
                [] OTHER -> "Unknown",
     details |-> [NoDetails EXCEPT !.fmt = "Acquired on date",
                                   !.date = LocaleDate(tx.created)],
     timestamp |-> tx.created]

\* lines 538-551
TxRecord(tx) ==
    LET acquired == [NoDetails EXCEPT !.fmt = "Acquired on date",
                                      !.date = LocaleDate(tx.created)]
    IN  [type |-> CASE tx.type = "trade" -> "Trade"
                    [] tx.type = "waiver" -> "Waiver Wire"
                    [] tx.type = "free_agent" -> "Free Agency"
                    [] OTHER -> "Unknown Transaction",
         details |-> IF tx.type = "waiver" /\ tx.waiver_bid # 0
                     THEN [acquired EXCEPT !.fmt = "Paid bid FAAB on date",
                                           !.bid = tx.waiver_bid]
                     ELSE acquired,
         timestamp |-> tx.created]

\* the transaction's reach without the test of roster_ids (line 529)
TxTouchesAnyRoster(tx, player) ==
    /\ tx.adds[player] # 0
    /\ player \in RosterPlayers

\* lines 529-556, for a transaction whose roster_ids is an array
TxTouches(tx, player) ==
    /\ UserRosterId \in tx.roster_ids
    /\ tx.adds[player] # 0
    /\ player \in RosterPlayers

ApplyTx(acq, tx) ==
    [p \in DOMAIN acq \cup {q \in Players : TxTouches(tx, q)} |->
        IF TxTouches(tx, p) /\ TxReplaces(acq, p, tx)
        THEN TxRecord(tx) ELSE acq[p]]

\* the events of one season, in the order the loop at line 486 meets them
RECURSIVE PickEvents(_, _, _, _)
PickEvents(picks, season, draftType, draft_id) ==
    IF picks = <<>> THEN <<>>
    ELSE (IF Head(picks).picked_by = UserId
          THEN <<[kind |-> "pick", season |-> season, draftType |-> draftType,
                  draft_id |-> draft_id, pick |-> Head(picks), tx |-> NoTx]>>
          ELSE <<>>)
         \o PickEvents(Tail(picks), season, draftType, draft_id)

RECURSIVE DraftEvents(_, _, _, _)
DraftEvents(sortedDrafts, season, isRedraft, c) ==
    IF sortedDrafts = <<>> THEN <<>>
    ELSE PickEvents(Head(sortedDrafts).picks, season,
                    DraftType(isRedraft, c, season, Head(sortedDrafts).draft_id),
                    Head(sortedDrafts).draft_id)
         \o DraftEvents(Tail(sortedDrafts), season, isRedraft, c)

TxEvents(txs, season) ==
    [i \in 1..Len(txs) |->
        [kind |-> "tx", season |-> season, draftType |-> "",
         draft_id |-> NoDraft, pick |-> NoPick, tx |-> txs[i]]]

\* the events of a season without the check of the user's roster (line 491)
SeasonEventsIgnoringRoster(histData, isRedraft, c) ==
    DraftEvents(SortDrafts(histData.drafts), histData.season, isRedraft, c)
    \o TxEvents(histData.txs, histData.season)

SeasonEvents(histData, isRedraft, c) ==
    IF histData.roster = "none" THEN <<>>
    ELSE DraftEvents(SortDrafts(histData.drafts), histData.season, isRedraft, c)
         \o TxEvents(histData.txs, histData.season)

RECURSIVE FusionEvents(_, _, _)
FusionEvents(data, isRedraft, c) ==
    IF data = <<>> THEN <<>>
    ELSE SeasonEvents(Head(data), isRedraft, c)
         \o FusionEvents(Tail(data), isRedraft, c)

-----------------------------------------------------------------------------
(* Fallback resolver, lines 559-565 *)

\* the fallback without its last disjunct (a participant never found)
FallbackAppliesOnlyWhenFound(c, startupCount) ==
    \/ c.draftsExistBefore
    \/ (c.foundUserInLineage /\ startupCount = 0
            /\ c.designatedDraftId # NoDraft)
    \/ (c.foundUserInLineage /\ c.designatedDraftId = NoDraft)

FallbackApplies(c, startupCount) ==
    \/ c.draftsExistBefore
    \/ (c.foundUserInLineage /\ startupCount = 0
            /\ c.designatedDraftId # NoDraft)
    \/ (c.foundUserInLineage /\ c.designatedDraftId = NoDraft)
    \/ ~c.foundUserInLineage

\* the fallback without the test of line 561: every record is overwritten
ApplyFallbackToEveryRecord(acq, c, startupCount) ==
    IF FallbackApplies(c, startupCount)
    THEN [p \in DOMAIN acq |-> PreviousOwnerRecord]
    ELSE acq

ApplyFallback(acq, c, startupCount) ==
    IF FallbackApplies(c, startupCount)
    THEN [p \in DOMAIN acq |->
            IF acq[p].type = "Unknown" THEN PreviousOwnerRecord ELSE acq[p]]
    ELSE acq

-----------------------------------------------------------------------------
(* The data source *)

\* league ids are 1..Len(world.prev); league 1 is the target league and
\* world.prev[k] is the previous_league_id of league k
LeagueExists(k) == k \in 1..Len(world.prev)

\* the season label of league k: older leagues have smaller labels
SeasonOf(k) == Len(world.prev) + 1 - k

NoSeasonData == [roster |-> "none", drafts |-> <<>>, txs |-> <<>>]

WorldSeason(k) == IF LeagueExists(k) THEN world.seasons[k] ELSE NoSeasonData

NullDetails == [ok |-> FALSE, type |-> 0, total_rosters |-> 0]

-----------------------------------------------------------------------------
(* persistentCache.ts *)

NoEntry == [present |-> FALSE, timestamp |-> 0, duration |-> 0]

\* saveToCache(key, data): the entry written (data is kept beside it)
SavedEntry ==
    [present |-> TRUE, timestamp |-> now,
     duration |-> DEFAULT_CACHE_DURATION_HOURS]

\* getFromCache(key) returns the data
CacheValid(entry) ==
    entry.present /\ now - entry.timestamp < entry.duration

-----------------------------------------------------------------------------
(* State *)

Pending == [state |-> "pending", leagueId |-> NoLeague, season |-> EmptySeason,
            roster |-> "none", drafts |-> <<>>, txs |-> <<>>]

NullTask == [Pending EXCEPT !.state = "null"]

NoEvent == [kind |-> "", season |-> EmptySeason, draftType |-> "",
            draft_id |-> NoDraft, pick |-> NoPick, tx |-> NoTx]

Calls == 1..MaxCalls

\* getFromCache has not been called / returned null / returned data
NoRead == [state |-> "none", data |-> InitialAcquisitions]
Null == [state |-> "null", data |-> InitialAcquisitions]
Data(d) == [state |-> "data", data |-> d]

InitStateWith(w, acq) ==
    /\ world = w
    /\ now = 0
    /\ cache = [acq |-> NoEntry, acqData |-> InitialAcquisitions,
                details |-> NoEntry, detailsData |-> NullDetails]
    /\ pc = "idle"
    /\ callNo = 0
    /\ aborted = FALSE
    /\ failures = 0
    /\ acquisitions = acq
    /\ leagueDetails = NullDetails
    /\ history = <<>>
    /\ currentLeagueId = NoLeague
    /\ visitedLeagueIds = {}
    /\ fetchCount = [k \in 1..(Len(w.prev) + 1) |-> 0]
    /\ retryCount = 0
    /\ walkResult = <<>>
    /\ tasks = <<>>
    /\ cls = InitialClassification
    /\ events = <<>>
    /\ lastEvent = NoEvent
    /\ userStartupDraftPlayerCount = 0
    /\ outcome = [c \in Calls |-> "none"]
    /\ result = [c \in Calls |-> InitialAcquisitions]
    /\ log = [c \in Calls |-> {}]
    /\ got = NoRead
    /\ currentWeek = 0
    /\ weekly = <<>>
    /\ currentYear = FIRST_YEAR
    /\ userLeagueYears = {}
    /\ potentialYears = <<>>
    /\ probedYears = <<>>
    /\ availableYears = <<>>
    /\ sortedYears = <<>>
    /\ mounted = FALSE
    /\ fetches = <<>>
    /\ players = [rows |-> "none", by |-> 0]
    /\ error = "null"
    /\ isFetchingTableData = TRUE
    /\ updates = {}
    /\ controllers = <<>>
    /\ backgroundLoadAbortControllerRef = 0
    /\ effectController = 0
    /\ form = [username |-> "", season |-> FIRST_YEAR, seasonError |-> "null",
               selectedLeagueId |-> "", userId |-> "null", leagues |-> {},
               isLoading |-> FALSE, isLoadingSelectedLeague |-> FALSE,
               error |-> "null", erroredLeagueId |-> "null"]
    /\ submit = [controller |-> 0, at |-> "idle"]
    /\ loads = {}

InitState(w) == InitStateWith(w, InitialAcquisitions)

walkVars == <<history, currentLeagueId, visitedLeagueIds, fetchCount,
              retryCount, walkResult>>
fuseVars == <<cls, events, lastEvent, userStartupDraftPlayerCount>>

-----------------------------------------------------------------------------
(* How a call of getPlayerAcquisitions ends *)

TargetLeague == 1

Logged(what) ==
    IF callNo \in Calls THEN [log EXCEPT ![callNo] = @ \cup {what}] ELSE log

\* the variables of a call that is over are gone
DropLocals ==
    /\ acquisitions' = InitialAcquisitions
    /\ leagueDetails' = NullDetails
    /\ history' = <<>>
    /\ currentLeagueId' = NoLeague
    /\ visitedLeagueIds' = {}
    /\ fetchCount' = [k \in DOMAIN fetchCount |-> 0]
    /\ retryCount' = 0
    /\ walkResult' = <<>>
    /\ tasks' = <<>>
    /\ cls' = InitialClassification
    /\ events' = <<>>
    /\ lastEvent' = NoEvent
    /\ userStartupDraftPlayerCount' = 0

\* the catch block of line 570 saving the map without a look at the signal
EndAbortedSaving(store) ==
    /\ outcome' = [outcome EXCEPT ![callNo] = "aborted"]
    /\ cache' = [store EXCEPT !.acq = SavedEntry,
                              !.acqData = JsonRoundTrip(acquisitions)]
    /\ pc' = "idle"
    /\ aborted' = FALSE
    /\ UNCHANGED result
    /\ DropLocals

\* throw of an AbortError, lines 570-575 (the signal is aborted: no save)
EndAborted(store) ==
    /\ outcome' = [outcome EXCEPT ![callNo] = "aborted"]
    /\ cache' = store
    /\ pc' = "idle"
    /\ aborted' = FALSE
    /\ UNCHANGED result
    /\ DropLocals

\* saveToPersistentCache(key, acquisitions) guarded by !signal.aborted,
\* then return acquisitions: lines 394-397, 566-569 and 577-581
Saved(store, acq) ==
    IF ~aborted
    THEN [store EXCEPT !.acq = SavedEntry, !.acqData = JsonRoundTrip(acq)]
    ELSE store

EndReturned(how, acq, store) ==
    /\ outcome' = [outcome EXCEPT ![callNo] = how]
    /\ result' = [result EXCEPT ![callNo] = acq]
    /\ cache' = Saved(store, acq)
    /\ pc' = "idle"
    /\ aborted' = FALSE
    /\ DropLocals

-----------------------------------------------------------------------------
(* getLeagueHistory, lines 690-739 *)

\* the history returned in the order it was pushed
ReverseForgotten(seq) == seq

\* Array.prototype.reverse, lines 719, 723 and 737
Reverse(seq) == [i \in 1..Len(seq) |-> seq[Len(seq) + 1 - i]]

HistoryNode(k) ==
    [league_id |-> k, previousLeagueId |-> world.prev[k], season |-> SeasonOf(k)]

\* a degraded node that carries a season label
DegradedNodeWithSeason ==
    [league_id |-> TargetLeague, previousLeagueId |-> NoLeague,
     season |-> 1]

\* line 737: the single node the walker degrades to
DegradedNode ==
    [league_id |-> TargetLeague, previousLeagueId |-> NoLeague,
     season |-> EmptySeason]

\* the loop guard without the visited set
LoopGuardWithoutVisited(h, next, visited) ==
    next # NoLeague /\ Len(h) < HISTORY_LIMIT

\* line 696
LoopGuard(h, next, visited) ==
    next # NoLeague /\ Len(h) < HISTORY_LIMIT /\ next \notin visited

\* the return of the walk without the check of line 390
ReturnsWithoutAbortCheck(h, hist, next, visited, count, retries, details, store) ==
    IF callNo # 0 /\ Len(h) = 0
    THEN EndReturned("computed", acquisitions, store)
    ELSE /\ walkResult' = h
         /\ history' = hist
         /\ currentLeagueId' = next
         /\ visitedLeagueIds' = visited
         /\ fetchCount' = count
         /\ retryCount' = retries
         /\ leagueDetails' = details
         /\ cache' = store
         /\ pc' = IF callNo = 0 THEN "walked" ELSE "tasks"
         /\ tasks' = IF callNo = 0 THEN <<>>
                     ELSE [i \in 1..Len(h) |-> Pending]
         /\ UNCHANGED <<acquisitions, fuseVars, outcome, result, aborted>>

\* getLeagueHistory returns h after a step that left the walk's variables
\* hist, next, visited, count and retries. Called on its own (callNo = 0)
\* the walk is over. Called by getPlayerAcquisitions, the caller goes on at
\* line 390: it throws when the signal is aborted, returns the untouched map
\* when there is no history (lines 393-398) and otherwise starts one task
\* per node (line 400).
Returns(h, hist, next, visited, count, retries, details, store) ==
    IF callNo # 0 /\ aborted THEN EndAborted(store)
    ELSE IF callNo # 0 /\ Len(h) = 0
         THEN EndReturned("computed", acquisitions, store)
         ELSE /\ walkResult' = h
              /\ history' = hist
              /\ currentLeagueId' = next
              /\ visitedLeagueIds' = visited
              /\ fetchCount' = count
              /\ retryCount' = retries
              /\ leagueDetails' = details
              /\ cache' = store
              /\ pc' = IF callNo = 0 THEN "walked" ELSE "tasks"
              /\ tasks' = IF callNo = 0 THEN <<>>
                          ELSE [i \in 1..Len(h) |-> Pending]
              /\ UNCHANGED <<acquisitions, fuseVars, outcome, result, aborted>>

\* the walk goes on with a request in flight
Continues(hist, next, visited, count, retries, details, store, at) ==
    /\ history' = hist
    /\ currentLeagueId' = next
    /\ visitedLeagueIds' = visited
    /\ fetchCount' = count
    /\ retryCount' = retries
    /\ leagueDetails' = details
    /\ cache' = store
    /\ pc' = at
    /\ UNCHANGED <<walkResult, tasks, acquisitions, fuseVars, outcome, result,
                   aborted>>

\* lines 691-702: the walk up to its first request; an aborted signal makes
\* line 697 throw and line 723 return the empty history
StartWalk(details, store) ==
    IF aborted
    THEN Returns(<<>>, <<>>, TargetLeague, {},
                 [k \in DOMAIN fetchCount |-> 0], 0, details, store)
    ELSE Continues(<<>>, TargetLeague, {TargetLeague},
                   [k \in DOMAIN fetchCount |->
                       IF k = TargetLeague THEN 1 ELSE 0],
                   0, details, store, "history")

\* the request in flight is cancelled (or the check of line 697 throws):
\* line 723
HistoryCancelled ==
    /\ pc = "history"
    /\ aborted
    /\ Returns(Reverse(history), history, currentLeagueId, visitedLeagueIds,
               fetchCount, retryCount, leagueDetails, cache)
    /\ UNCHANGED <<world, uiVars, weekVars, got, now, callNo, failures, log>>

\* the league is returned: lines 703-717, and the next request if any
HistoryResponse ==
    /\ pc = "history"
    /\ ~aborted
    /\ LeagueExists(currentLeagueId)
    /\ LET h == Append(history, HistoryNode(currentLeagueId))
           next == world.prev[currentLeagueId]
       IN  IF LoopGuard(h, next, visitedLeagueIds)
           THEN Continues(h, next, visitedLeagueIds \cup {next},
                          [fetchCount EXCEPT ![next] = @ + 1], retryCount,
                          leagueDetails, cache, "history")
           ELSE Returns(Reverse(h), h, next, visitedLeagueIds, fetchCount,
                        retryCount, leagueDetails, cache)
    /\ UNCHANGED <<world, uiVars, weekVars, got, now, callNo, failures, log>>

\* response.data is null: line 705
HistoryNoData ==
    /\ pc = "history"
    /\ ~aborted
    /\ ~LeagueExists(currentLeagueId)
    /\ Returns(Reverse(history), history, currentLeagueId, visitedLeagueIds,
               fetchCount, retryCount, leagueDetails, cache)
    /\ UNCHANGED <<world, uiVars, weekVars, got, now, callNo, failures, log>>

\* the request fails with another error: lines 725-737
HistoryFail ==
    /\ pc = "history"
    /\ ~aborted
    /\ failures < MaxFailures
    /\ failures' = failures + 1
    /\ log' = Logged(<<"league", currentLeagueId>>)
    /\ IF Len(history) = 0 /\ TargetLeague = currentLeagueId
       THEN Continues(history, currentLeagueId, visitedLeagueIds, fetchCount,
                      retryCount + 1, leagueDetails, cache, "historyRetry")
       ELSE Returns(Reverse(history), history, currentLeagueId,
                    visitedLeagueIds, fetchCount, retryCount, leagueDetails,
                    cache)
    /\ UNCHANGED <<world, uiVars, weekVars, got, now, callNo>>

\* the fallback request answers: line 731
RetryResponse ==
    /\ pc = "historyRetry"
    /\ ~aborted
    /\ LeagueExists(TargetLeague)
    /\ Returns(<<HistoryNode(TargetLeague)>>, history, currentLeagueId,
               visitedLeagueIds, fetchCount, retryCount, leagueDetails, cache)
    /\ UNCHANGED <<world, uiVars, weekVars, got, now, callNo, failures, log>>

\* the fallback request is cancelled or returns no data: lines 733-737
RetryNoData ==
    /\ pc = "historyRetry"
    /\ aborted \/ ~LeagueExists(TargetLeague)
    /\ Returns(<<DegradedNode>>, history, currentLeagueId, visitedLeagueIds,
               fetchCount, retryCount, leagueDetails, cache)
    /\ UNCHANGED <<world, uiVars, weekVars, got, now, callNo, failures, log>>

\* the fallback request fails too: lines 733-737
RetryFail ==
    /\ pc = "historyRetry"
    /\ ~aborted
    /\ failures < MaxFailures
    /\ failures' = failures + 1
    /\ log' = Logged(<<"retry", TargetLeague>>)
    /\ Returns(<<DegradedNode>>, history, currentLeagueId, visitedLeagueIds,
               fetchCount, retryCount, leagueDetails, cache)
    /\ UNCHANGED <<world, uiVars, weekVars, got, now, callNo>>

-----------------------------------------------------------------------------
(* getPlayerAcquisitions, lines 365-583 *)

\* lines 371-375: the call is answered from the persistent cache
CallCached ==
    /\ pc = "idle"
    /\ callNo < MaxCalls
    /\ CacheValid(cache.acq)
    /\ callNo' = callNo + 1
    /\ outcome' = [outcome EXCEPT ![callNo + 1] = "cached"]
    /\ result' = [result EXCEPT ![callNo + 1] = cache.acqData]
    /\ aborted' = FALSE
    /\ UNCHANGED <<world, uiVars, weekVars, got, now, cache, pc, failures, acquisitions,
                   leagueDetails, walkVars, tasks, fuseVars, log>>

\* lines 371-386: no valid cache entry; the map starts with one Unknown
\* record per roster player and getLeagueDetails is awaited, unless the
\* signal is aborted already (line 383)
Call ==
    /\ pc = "idle"
    /\ callNo < MaxCalls
    /\ ~CacheValid(cache.acq)
    /\ callNo' = callNo + 1
    /\ acquisitions' = InitialAcquisitions
    /\ cache' = [cache EXCEPT !.acq = NoEntry]
    /\ IF aborted
       THEN /\ outcome' = [outcome EXCEPT ![callNo + 1] = "aborted"]
            /\ aborted' = FALSE
            /\ UNCHANGED pc
       ELSE /\ pc' = "details"
            /\ UNCHANGED <<outcome, aborted>>
    /\ UNCHANGED <<world, uiVars, weekVars, got, now, failures, result, leagueDetails, walkVars,
                   tasks, fuseVars, log>>

\* getLeagueDetails, lines 316-354, answered from the persistent cache
DetailsCached ==
    /\ pc = "details"
    /\ CacheValid(cache.details)
    /\ StartWalk(cache.detailsData, cache)
    /\ UNCHANGED <<world, uiVars, weekVars, got, now, callNo, failures, log>>

\* getLeagueDetails fetches the league and caches it (lines 327-344)
DetailsFetched ==
    /\ pc = "details"
    /\ ~CacheValid(cache.details)
    /\ ~aborted
    /\ LeagueExists(TargetLeague)
    /\ StartWalk(world.details,
                 [cache EXCEPT !.details = SavedEntry,
                               !.detailsData = world.details])
    /\ UNCHANGED <<world, uiVars, weekVars, got, now, callNo, failures, log>>

\* getLeagueDetails returns null: cancelled request or no such league
DetailsNull ==
    /\ pc = "details"
    /\ ~CacheValid(cache.details)
    /\ aborted \/ ~LeagueExists(TargetLeague)
    /\ StartWalk(NullDetails, [cache EXCEPT !.details = NoEntry])
    /\ UNCHANGED <<world, uiVars, weekVars, got, now, callNo, failures, log>>

\* getLeagueDetails returns null: the request failed (lines 348-353)
DetailsFail ==
    /\ pc = "details"
    /\ ~CacheValid(cache.details)
    /\ ~aborted
    /\ failures < MaxFailures
    /\ failures' = failures + 1
    /\ log' = Logged(<<"details", TargetLeague>>)
    /\ StartWalk(NullDetails, [cache EXCEPT !.details = NoEntry])
    /\ UNCHANGED <<world, uiVars, weekVars, got, now, callNo>>

\* one task of historicalDataPromises ends with the season's data
\* (lines 404-424)
SeasonData(node, rosterKind) ==
    [state |-> "data", leagueId |-> node.league_id, season |-> node.season,
     roster |-> rosterKind,
     drafts |-> WorldSeason(node.league_id).drafts,
     txs |-> WorldSeason(node.league_id).txs]

\* the results are kept in the order in which the tasks finish: a task that
\* finishes after a newer season's task takes that task's place
SeasonTaskInCompletionOrder(i) ==
    /\ pc = "tasks"
    /\ ~aborted
    /\ tasks[i].state = "pending"
    /\ LET done == {j \in (i + 1)..Len(tasks) : tasks[j].state # "pending"}
           data == SeasonData(walkResult[i],
                              WorldSeason(walkResult[i].league_id).roster)
       IN  IF done = {}
           THEN tasks' = [tasks EXCEPT ![i] = data]
           ELSE LET j == CHOOSE k \in done : \A m \in done : k <= m
                IN  tasks' = [tasks EXCEPT ![i] = tasks[j], ![j] = data]
    /\ UNCHANGED <<world, uiVars, weekVars, got, now, cache, pc, callNo, aborted, failures,
                   acquisitions, leagueDetails, walkVars, fuseVars, outcome,
                   result, log>>

SeasonTask(i) ==
    /\ pc = "tasks"
    /\ ~aborted
    /\ tasks[i].state = "pending"
    /\ tasks' = [tasks EXCEPT ![i] =
                    SeasonData(walkResult[i],
                               WorldSeason(walkResult[i].league_id).roster)]
    /\ UNCHANGED <<world, uiVars, weekVars, got, now, cache, pc, callNo, aborted, failures,
                   acquisitions, leagueDetails, walkVars, fuseVars, outcome,
                   result, log>>

\* getUserRoster fails and returns null (lines 756-762): the season has no
\* roster of the user, its drafts and transactions are kept
SeasonRosterFail(i) ==
    /\ pc = "tasks"
    /\ ~aborted
    /\ tasks[i].state = "pending"
    /\ failures < MaxFailures
    /\ failures' = failures + 1
    /\ log' = Logged(<<"roster", walkResult[i].league_id>>)
    /\ tasks' = [tasks EXCEPT ![i] = SeasonData(walkResult[i], "none")]
    /\ UNCHANGED <<world, uiVars, weekVars, got, now, cache, pc, callNo, aborted, acquisitions,
                   leagueDetails, walkVars, fuseVars, outcome, result>>

\* getLeagueDrafts, one getDraftPicks or getLeagueTransactions throws: the
\* task returns null (lines 425-431)
FetchKinds(k) ==
    {"drafts", "transactions"}
        \cup (IF Len(WorldSeason(k).drafts) > 0 THEN {"picks"} ELSE {})

\* a failed request that costs the season only what it asked for
SeasonFetchFailKeepingRest(i, what) ==
    /\ pc = "tasks"
    /\ ~aborted
    /\ tasks[i].state = "pending"
    /\ what \in FetchKinds(walkResult[i].league_id)
    /\ failures < MaxFailures
    /\ failures' = failures + 1
    /\ log' = Logged(<<what, walkResult[i].league_id>>)
    /\ tasks' = [tasks EXCEPT ![i] =
            LET full == SeasonData(walkResult[i],
                                   WorldSeason(walkResult[i].league_id).roster)
            IN  IF what = "transactions" THEN [full EXCEPT !.txs = <<>>]
                ELSE [full EXCEPT !.drafts = <<>>]]
    /\ UNCHANGED <<world, uiVars, weekVars, got, now, cache, pc, callNo, aborted, acquisitions,
                   leagueDetails, walkVars, fuseVars, outcome, result>>

SeasonFetchFail(i, what) ==
    /\ pc = "tasks"
    /\ ~aborted
    /\ tasks[i].state = "pending"
    /\ what \in FetchKinds(walkResult[i].league_id)
    /\ failures < MaxFailures
    /\ failures' = failures + 1
    /\ log' = Logged(<<what, walkResult[i].league_id>>)
    /\ tasks' = [tasks EXCEPT ![i] = NullTask]
    /\ UNCHANGED <<world, uiVars, weekVars, got, now, cache, pc, callNo, aborted, acquisitions,
                   leagueDetails, walkVars, fuseVars, outcome, result>>

\* the signal is aborted while tasks run: a task throws the AbortError of
\* line 411 and Promise.all rejects at once, or every task ends (with null
\* or partial data) and line 436 throws; the call ends at line 575
TasksCancelled ==
    /\ pc = "tasks"
    /\ aborted
    /\ EndAborted(cache)
    /\ UNCHANGED <<world, uiVars, weekVars, got, now, callNo, failures, log>>

\* line 438
RECURSIVE FilterData(_)
FilterData(ts) ==
    IF ts = <<>> THEN <<>>
    ELSE (IF Head(ts).state = "data" THEN <<Head(ts)>> ELSE <<>>)
         \o FilterData(Tail(ts))

\* Promise.all resolves: lines 434-485
Join ==
    /\ pc = "tasks"
    /\ ~aborted
    /\ \A i \in 1..Len(tasks) : tasks[i].state # "pending"
    /\ pc' = "fuse"
    /\ cls' = Classify(FilterData(tasks))
    /\ events' = FusionEvents(FilterData(tasks), IsRedraft(leagueDetails), cls')
    /\ lastEvent' = NoEvent
    /\ userStartupDraftPlayerCount' = 0
    /\ UNCHANGED <<world, uiVars, weekVars, got, now, cache, callNo, aborted, failures, acquisitions,
                   leagueDetails, walkVars, tasks, outcome, result, log>>

\* one draft pick of the user: lines 515-526
FusePick ==
    /\ pc = "fuse"
    /\ events # <<>>
    /\ Head(events).kind = "pick"
    /\ lastEvent' = Head(events)
    /\ events' = Tail(events)
    /\ acquisitions' = ApplyPick(acquisitions, leagueDetails, Head(events))
    /\ userStartupDraftPlayerCount' =
          IF PickApplies(acquisitions, Head(events).pick)
             /\ Head(events).draftType = "Startup Draft"
          THEN userStartupDraftPlayerCount + 1
          ELSE userStartupDraftPlayerCount
    /\ UNCHANGED <<world, uiVars, weekVars, got, now, cache, pc, callNo, aborted, failures,
                   leagueDetails, walkVars, tasks, cls, outcome, result, log>>

\* one transaction: lines 528-556
FuseTransaction ==
    /\ pc = "fuse"
    /\ events # <<>>
    /\ Head(events).kind = "tx"
    /\ ~Head(events).tx.malformed
    /\ lastEvent' = Head(events)
    /\ events' = Tail(events)
    /\ acquisitions' = ApplyTx(acquisitions, Head(events).tx)
    /\ UNCHANGED <<world, uiVars, weekVars, got, now, cache, pc, callNo, aborted, failures,
                   leagueDetails, walkVars, tasks, cls,
                   userStartupDraftPlayerCount, outcome, result, log>>

\* a transaction without roster_ids: line 529 throws a TypeError, caught
\* at line 570; the map is saved and returned as it is (lines 577-581)
FuseThrows ==
    /\ pc = "fuse"
    /\ events # <<>>
    /\ Head(events).kind = "tx"
    /\ Head(events).tx.malformed
    /\ EndReturned("error", acquisitions, cache)
    /\ UNCHANGED <<world, uiVars, weekVars, got, now, callNo, failures, log>>

\* the fallback and the return: lines 559-569
Finish ==
    /\ pc = "fuse"
    /\ events = <<>>
    /\ EndReturned("computed",
                   ApplyFallback(acquisitions, cls, userStartupDraftPlayerCount),
                   cache)
    /\ UNCHANGED <<world, uiVars, weekVars, got, now, callNo, failures, log>>

\* getLeagueHistory called on its own, lines 690-702
GetLeagueHistory ==
    /\ pc = "idle"
    /\ callNo = 0
    /\ StartWalk(leagueDetails, cache)
    /\ UNCHANGED <<world, uiVars, weekVars, got, now, callNo, failures, log>>

-----------------------------------------------------------------------------
(* The environment *)

AwaitPoints == {"details", "history", "historyRetry", "tasks"}

\* controller.abort(): while the call is suspended at an await, or before
\* the call is made
Abort ==
    /\ ~aborted
    /\ pc \in AwaitPoints \/ (pc = "idle" /\ callNo < MaxCalls)
    /\ aborted' = TRUE
    /\ UNCHANGED <<world, uiVars, weekVars, got, now, cache, pc, callNo, failures, acquisitions,
                   leagueDetails, walkVars, tasks, fuseVars, outcome, result,
                   log>>

\* time passes between two calls
Tick ==
    /\ pc = "idle"
    /\ callNo \in 1..(MaxCalls - 1)
    /\ now < MaxClock
    /\ now' = now + 1
    /\ UNCHANGED <<world, uiVars, weekVars, got, cache, pc, callNo, aborted, failures, acquisitions,
                   leagueDetails, walkVars, tasks, fuseVars, outcome, result,
                   log>>

-----------------------------------------------------------------------------
(* The data the source may hold *)

Pick(player, by, round, no) ==
    [player_id |-> player, picked_by |-> by, round |-> round, pick_no |-> no]

Draft(id, type, picks) ==
    [draft_id |-> id, id_text |-> "", type |-> type, picks |-> picks]

\* a draft whose identifier is not numeric and contains the word
TextDraft(id, word, picks) ==
    [draft_id |-> id, id_text |-> word, type |-> "snake", picks |-> picks]

Adds(player, roster) == [p \in Players |-> IF p = player THEN roster ELSE 0]

Tx(type, rosters, adds, created, bid) ==
    [type |-> type, malformed |-> FALSE, roster_ids |-> rosters,
     adds |-> adds, created |-> created, waiver_bid |-> bid]

\* a transaction of the data source without roster_ids
MalformedTx == [NoTx EXCEPT !.type = "trade", !.malformed = TRUE]

Mine(player) ==
    IF player = "p1" THEN Pick("p1", UserId, 1, 2)
    ELSE IF player = "p2" THEN Pick("p2", UserId, 2, 3)
    ELSE Pick("p3", UserId, 2, 4)

\* a pick of another participant
Theirs == Pick("p1", OtherUserId, 1, 1)

Redraft == [ok |-> TRUE, type |-> REDRAFT_TYPE, total_rosters |-> 2]

Dynasty == [ok |-> TRUE, type |-> 2, total_rosters |-> 0]

LeagueSettings == {Redraft, Dynasty}

FewDraftLists ==
    {<<>>,
     <<Draft(1, "snake", <<Mine("p1")>>)>>,
     <<Draft(1, "snake", <<Theirs>>)>>}

ManyDraftLists ==
    FewDraftLists \cup
    {<<Draft(1, "snake", <<Theirs, Mine("p3")>>)>>,
     <<Draft(1, "startup", <<Mine("p1"), Mine("p2")>>)>>,
     <<Draft(2, "snake", <<Mine("p1")>>), Draft(1, "snake", <<Mine("p2")>>)>>,
     <<Draft(1, "snake", <<Mine("p1")>>), Draft(2, "startup", <<Mine("p2")>>)>>,
     <<Draft(1, "snake", <<Theirs>>), Draft(2, "snake", <<Mine("p1")>>)>>,
     <<Draft(1, "snake", <<Mine("p1")>>),
       TextDraft(2, "initial", <<Mine("p2")>>)>>,
     <<TextDraft(2, "startup", <<Theirs>>),
       Draft(1, "snake", <<Mine("p2")>>)>>}

Both == {UserRosterId, OtherRosterId}

FewTxLists(season) ==
    {<<>>,
     <<Tx("waiver", {UserRosterId}, Adds("p1", UserRosterId),
          JuneFirst(season) + 5, 7)>>,
     <<MalformedTx>>}

ManyTxLists(season) ==
    LET before == JuneFirst(season) - 5
        after == JuneFirst(season) + 5
        trade(t) == Tx("trade", Both, Adds("p1", UserRosterId), t, 0)
        claim(t) == Tx("waiver", {UserRosterId}, Adds("p1", UserRosterId), t, 7)
    IN  FewTxLists(season) \cup
        {<<trade(before)>>, <<trade(after)>>,
         <<Tx("trade", Both, Adds("p1", OtherRosterId), after, 0)>>,
         <<Tx("trade", Both, Adds("p3", UserRosterId), after, 0)>>,
         <<Tx("free_agent", {UserRosterId}, Adds("p2", UserRosterId), after, 0)>>,
         <<Tx("free_agent", {OtherRosterId}, Adds("p1", OtherRosterId), after, 0)>>,
         <<Tx("commissioner", {UserRosterId}, Adds("p1", UserRosterId), after, 0)>>,
         <<Tx("free_agent", {UserRosterId}, [p \in Players |-> 0], after, 0)>>,
         <<trade(after), claim(after)>>,
         <<trade(after), claim(before)>>,
         <<trade(before), claim(after)>>,
         <<trade(after),
           Tx("free_agent", {UserRosterId}, Adds("p1", UserRosterId), 0, 0)>>}

Seasons(rosters, draftLists, txLists) ==
    {[roster |-> r, drafts |-> d, txs |-> t] :
        r \in rosters, d \in draftLists, t \in txLists}

\* what one of the two oldest seasons may hold in the runs of the
\* classifier and the fuser
ManySeasons(season) ==
    Seasons({"none", "players"}, ManyDraftLists, {<<>>})
    \cup Seasons({"players"}, {<<>>, <<Draft(1, "snake", <<Mine("p1")>>)>>},
                 ManyTxLists(season))
    \cup Seasons({"empty"}, {<<>>, <<Draft(1, "snake", <<Mine("p1")>>)>>},
                 {<<>>})

\* what a later season may hold in these runs
LaterSeasons(season) ==
    {NoSeasonData,
     [roster |-> "players", drafts |-> <<>>, txs |-> <<>>],
     [roster |-> "players",
      drafts |-> <<Draft(1, "snake", <<Mine("p2")>>)>>,
      txs |-> <<Tx("trade", Both, Adds("p1", UserRosterId),
                   JuneFirst(season) + 5, 0)>>]}

\* the chain 1 -> 2 -> ... -> n, whose last league points to `tail`
Chain(n, tail) == [k \in 1..n |-> IF k < n THEN k + 1 ELSE tail]

World(settings, seasons) ==
    [prev |-> Chain(Len(seasons), NoLeague), details |-> settings,
     seasons |-> seasons]

\* all sequences of n seasons; league k holds season n + 1 - k
RECURSIVE SeasonSeqs(_, _)
SeasonSeqs(n, k) ==
    IF k > n THEN {<<>>}
    ELSE {<<s>> \o rest :
             s \in IF k >= n - 1 THEN ManySeasons(n + 1 - k)
                   ELSE LaterSeasons(n + 1 - k),
             rest \in SeasonSeqs(n, k + 1)}

FuseWorlds ==
    UNION {{World(d, ss) : d \in LeagueSettings, ss \in SeasonSeqs(n, 1)} :
           n \in 0..MaxSeasons}

\* the data sources of the runs with upstream failures, cancellation and
\* repeated calls
FaultWorlds ==
    LET busy(season) ==
            [roster |-> "players",
             drafts |-> <<Draft(1, "snake", <<Mine("p1"), Mine("p2")>>)>>,
             txs |-> <<Tx("waiver", {UserRosterId}, Adds("p1", UserRosterId),
                          JuneFirst(season) + 5, 7)>>]
        absent(season) == [busy(season) EXCEPT !.roster = "none"]
        quiet == [roster |-> "players", drafts |-> <<>>, txs |-> <<>>]
        broken == [quiet EXCEPT !.txs = <<MalformedTx>>]
    IN  {World(Dynasty, <<>>),
         World(Dynasty, <<NoSeasonData>>),
         World(Dynasty, <<busy(1)>>),
         World(Dynasty, <<broken>>),
         World(Dynasty, <<quiet, absent(1)>>),
         World(Dynasty, <<busy(2), busy(1)>>),
         World(Redraft, <<busy(2), quiet>>)}

\* chains of every shape: ending, running into a league of the chain
\* (a cycle) or into a league that does not exist
ChainWorlds ==
    UNION {{[prev |-> Chain(n, tail), details |-> Dynasty,
             seasons |-> [k \in 1..n |-> NoSeasonData]] :
               tail \in 0..(n + 1)} :
           n \in 0..MaxChain}

\* one league whose only draft holds one pick of the user
SlotWorlds ==
    {[prev |-> Chain(1, NoLeague),
      details |-> [ok |-> TRUE, type |-> 2, total_rosters |-> t],
      seasons |-> <<[roster |-> "players",
                     drafts |-> <<Draft(1, "snake",
                                        <<Pick("p1", UserId, 1 + (p \div 12),
                                               p)>>)>>,
                     txs |-> <<>>]>>] :
        t \in 0..MaxTeams, p \in 1..MaxPick}

-----------------------------------------------------------------------------
(* Specifications *)

Init == \E w \in FaultWorlds : InitState(w)

Walk ==
    \/ HistoryCancelled \/ HistoryResponse \/ HistoryNoData
    \/ HistoryFail \/ RetryResponse \/ RetryNoData \/ RetryFail

Resolve ==
    \/ CallCached \/ Call
    \/ DetailsCached \/ DetailsFetched \/ DetailsNull
    \/ \E i \in 1..Len(tasks) : SeasonTask(i)
    \/ Join \/ FusePick \/ FuseTransaction \/ FuseThrows \/ Finish

Faults ==
    \/ DetailsFail
    \/ \E i \in 1..Len(tasks) : SeasonRosterFail(i)
    \/ \E i \in 1..Len(tasks) :
          \E what \in {"drafts", "picks", "transactions"} :
              SeasonFetchFail(i, what)
    \/ TasksCancelled
    \/ Abort
    \/ Tick

Next == Walk \/ Resolve \/ Faults

\* repeated calls of getPlayerAcquisitions with upstream failures,
\* cancellation and cache expiry
Spec == Init /\ [][Next]_vars

InitFuse == \E w \in FuseWorlds : InitState(w)

NextFuse ==
    \/ Call \/ DetailsFetched \/ DetailsNull
    \/ HistoryResponse \/ HistoryNoData
    \/ HistoryFail \/ RetryResponse \/ RetryNoData \/ RetryFail
    \/ \E i \in 1..Len(tasks) : SeasonTask(i)
    \/ Join \/ FusePick \/ FuseTransaction \/ FuseThrows \/ Finish

\* one call of getPlayerAcquisitions over every lineage, draft list and
\* transaction list of the catalog; only the league requests of the walker
\* may fail
SpecFuse == InitFuse /\ [][NextFuse]_vars

InitWalk == \E w \in ChainWorlds : InitState(w)

NextWalk == GetLeagueHistory \/ Walk \/ Abort

\* getLeagueHistory alone over chains of every shape; every request is
\* answered, fails or is cancelled
SpecWalk ==
    InitWalk /\ [][NextWalk]_vars /\ WF_vars(GetLeagueHistory \/ Walk)

InitSlot == \E w \in SlotWorlds : InitState(w)

NextSlot ==
    \/ Call \/ DetailsFetched \/ DetailsFail \/ HistoryResponse
    \/ \E i \in 1..Len(tasks) : SeasonTask(i)
    \/ Join \/ FusePick \/ Finish

\* one call of getPlayerAcquisitions over every pick number and team count
SpecSlot == InitSlot /\ [][NextSlot]_vars

-----------------------------------------------------------------------------
(* The persistent cache on its own: a caller saves its map under one key   *)
(* with any duration, reads the key and lets time pass.                    *)

\* saveToCache(key, data, duration), lines 27-43
SaveToCache(data, duration) ==
    /\ pc = "idle"
    /\ cache' = [cache EXCEPT
                    !.acq = [present |-> TRUE, timestamp |-> now,
                             duration |-> duration],
                    !.acqData = JsonRoundTrip(data)]
    /\ UNCHANGED <<world, uiVars, weekVars, now, pc, callNo, aborted, failures, acquisitions,
                   leagueDetails, walkVars, tasks, fuseVars, outcome, result,
                   log, got>>

\* getFromCache(key), lines 50-74
GetFromCache ==
    /\ pc = "idle"
    /\ IF CacheValid(cache.acq)
       THEN got' = Data(cache.acqData) /\ UNCHANGED cache
       ELSE got' = Null /\ cache' = [cache EXCEPT !.acq = NoEntry]
    /\ UNCHANGED <<world, uiVars, weekVars, now, pc, callNo, aborted, failures, acquisitions,
                   leagueDetails, walkVars, tasks, fuseVars, outcome, result,
                   log>>

\* time passes
Elapse ==
    /\ pc = "idle"
    /\ now < MaxClock
    /\ now' = now + 1
    /\ UNCHANGED <<world, uiVars, weekVars, cache, pc, callNo, aborted, failures, acquisitions,
                   leagueDetails, walkVars, tasks, fuseVars, outcome, result,
                   log, got>>

\* maps a caller saves: nothing resolved, a fallback record, a trade, and
\* the draft record of a season without a label
CacheData ==
    {InitialAcquisitions,
     [InitialAcquisitions EXCEPT !["p1"] = PreviousOwnerRecord],
     [InitialAcquisitions EXCEPT
        !["p1"] = TxRecord(Tx("trade", {UserRosterId},
                              Adds("p1", UserRosterId), 15, 0))],
     [InitialAcquisitions EXCEPT
        !["p2"] = PickRecord(Dynasty, EmptySeason, "Startup Draft",
                             Mine("p2"))]}

Durations == 0..MaxDuration

InitCache ==
    \E data \in CacheData : InitStateWith(World(Dynasty, <<>>), data)

NextCache ==
    \/ \E duration \in Durations : SaveToCache(acquisitions, duration)
    \/ GetFromCache
    \/ Elapse

SpecCache == InitCache /\ [][NextCache]_vars

-----------------------------------------------------------------------------
(* getLeagueTransactions on its own, lines 635-670: the data source answers *)
(* each week with transactions or without.                                 *)

\* lines 635-646 (no entry of the in-process cache)
GetLeagueTransactions ==
    /\ pc = "idle"
    /\ callNo = 0
    /\ currentWeek = 0
    /\ pc' = "weeks"
    /\ currentWeek' = 1
    /\ weekly' = <<>>
    /\ UNCHANGED <<world, uiVars, got, now, cache, callNo, aborted, failures,
                   acquisitions, leagueDetails, walkVars, tasks, fuseVars,
                   outcome, result, log>>

\* the request of the week answers: lines 650-657 and the loop's step
WeekResponse(nonEmpty) ==
    /\ pc = "weeks"
    /\ weekly' = Append(weekly, nonEmpty)
    /\ IF ~nonEmpty /\ currentWeek > EARLY_WEEKS
       THEN pc' = "scanned" /\ UNCHANGED currentWeek
       ELSE /\ currentWeek' = currentWeek + 1
            /\ pc' = IF currentWeek + 1 <= LAST_WEEK THEN "weeks"
                     ELSE "scanned"
    /\ UNCHANGED <<world, uiVars, got, now, cache, callNo, aborted, failures,
                   acquisitions, leagueDetails, walkVars, tasks, fuseVars,
                   outcome, result, log>>

\* the request of the week fails: lines 667-668 throw
WeekFail ==
    /\ pc = "weeks"
    /\ pc' = "scanFailed"
    /\ UNCHANGED <<world, uiVars, got, now, cache, callNo, aborted, failures,
                   acquisitions, leagueDetails, walkVars, tasks, fuseVars,
                   outcome, result, log, weekVars>>

\* the signal is aborted while the request of the week is in flight: lines
\* 664-666 return the transactions gathered so far
WeekCancelled ==
    /\ pc = "weeks"
    /\ pc' = "scanCancelled"
    /\ UNCHANGED <<world, uiVars, got, now, cache, callNo, aborted, failures,
                   acquisitions, leagueDetails, walkVars, tasks, fuseVars,
                   outcome, result, log, weekVars>>

InitWeeks == InitState(World(Dynasty, <<NoSeasonData>>))

NextWeeks ==
    \/ GetLeagueTransactions
    \/ \E nonEmpty \in BOOLEAN : WeekResponse(nonEmpty)
    \/ WeekFail
    \/ WeekCancelled

SpecWeeks == InitWeeks /\ [][NextWeeks]_vars

-----------------------------------------------------------------------------
(* getUserSeasons, lines 163-200, and the season field of UserInputForm.
   Years are kept as numbers: toString and parseInt of a year are inverse. *)

\* the years new Date().getFullYear() may give
CurrentYears == FIRST_YEAR..(FIRST_YEAR + MaxYearsOn)

\* what the season field may hold after parseInt: a year or NaN
SeasonInputs == ((FIRST_YEAR - 2)..(FIRST_YEAR + MaxYearsOn + 2)) \cup {NaN}

\* validateSeason: null when the value is accepted
ValidateSeason(yearNumber, year) ==
    IF yearNumber = NaN THEN "Please enter a valid year"
    ELSE IF yearNumber < FIRST_YEAR \/ yearNumber > year
         THEN "Year must be between 2017 and currentYear"
         ELSE "null"

\* line 172: Array.from({length: currentYear - 2017 + 1},
\*                      (_, i) => currentYear - i + 1).reverse()
PotentialYears(year) ==
    Reverse([k \in 1..(year - FIRST_YEAR + 1) |-> year - (k - 1) + 1])

\* availableYears.sort((a, b) => parseInt(b) - parseInt(a))
RECURSIVE InsertYear(_, _)
InsertYear(sorted, y) ==
    IF sorted = <<>> THEN <<y>>
    ELSE IF Head(sorted) - y < 0 THEN <<y>> \o sorted
         ELSE <<Head(sorted)>> \o InsertYear(Tail(sorted), y)

RECURSIVE SortYears(_)
SortYears(years) ==
    IF years = <<>> THEN <<>>
    ELSE InsertYear(SortYears(SubSeq(years, 1, Len(years) - 1)),
                    years[Len(years)])

\* lines 163-174: the first call of the session for the user (no entry of
\* sessionUserSeasonsCache), in a year and against upstream data
GetUserSeasons(year, leagueYears) ==
    /\ pc = "idle"
    /\ callNo = 0
    /\ currentWeek = 0
    /\ pc' = "years"
    /\ currentYear' = year
    /\ userLeagueYears' = leagueYears
    /\ potentialYears' = PotentialYears(year)
    /\ probedYears' = <<>>
    /\ availableYears' = <<>>
    /\ UNCHANGED <<world, tableVars, formVars, weekVars, got, now, cache, callNo, aborted, failures,
                   acquisitions, leagueDetails, walkVars, tasks, fuseVars,
                   outcome, result, log, sortedYears>>

\* one turn of the loop, lines 175-191: getUserLeagues is asked for the
\* year; it returns null when the request fails (lines 150-156)
ProbeYear(answered) ==
    /\ pc = "years"
    /\ ~aborted
    /\ potentialYears # <<>>
    /\ LET year == Head(potentialYears)
       IN  /\ probedYears' = Append(probedYears, year)
           /\ availableYears' =
                 IF answered /\ year \in userLeagueYears
                 THEN Append(availableYears, year) ELSE availableYears
    /\ potentialYears' = Tail(potentialYears)
    /\ UNCHANGED <<world, tableVars, formVars, weekVars, got, now, cache, pc, callNo, aborted,
                   failures, acquisitions, leagueDetails, walkVars, tasks,
                   fuseVars, outcome, result, log, currentYear,
                   userLeagueYears, sortedYears>>

\* the caller aborts the signal while the loop runs
AbortSeasons ==
    /\ pc = "years"
    /\ ~aborted
    /\ aborted' = TRUE
    /\ UNCHANGED <<world, uiVars, weekVars, got, now, cache, pc, callNo,
                   failures, acquisitions, leagueDetails, walkVars, tasks,
                   fuseVars, outcome, result, log>>

\* lines 176-178: the loop meets the aborted signal and throws
SeasonsAborted ==
    /\ pc = "years"
    /\ aborted
    /\ potentialYears # <<>>
    /\ pc' = "yearsAborted"
    /\ UNCHANGED <<world, uiVars, weekVars, got, now, cache, callNo, aborted,
                   failures, acquisitions, leagueDetails, walkVars, tasks,
                   fuseVars, outcome, result, log>>

\* lines 193-199: the sort and the return
ReturnSeasons ==
    /\ pc = "years"
    /\ potentialYears = <<>>
    /\ pc' = "yearsDone"
    /\ sortedYears' = SortYears(availableYears)
    /\ UNCHANGED <<world, tableVars, formVars, weekVars, got, now, cache, callNo, aborted, failures,
                   acquisitions, leagueDetails, walkVars, tasks, fuseVars,
                   outcome, result, log, currentYear, userLeagueYears,
                   potentialYears, probedYears, availableYears>>

\* the components before their first call: nothing is running
InitUi == InitState(World(Dynasty, <<NoSeasonData>>))

NextSeasons ==
    \/ \E year \in CurrentYears :
          \E leagueYears \in SUBSET (FIRST_YEAR..(year + 1)) :
              GetUserSeasons(year, leagueYears)
    \/ \E answered \in BOOLEAN : ProbeYear(answered)
    \/ AbortSeasons
    \/ SeasonsAborted
    \/ ReturnSeasons

SpecSeasons == InitUi /\ [][NextSeasons]_vars

-----------------------------------------------------------------------------
(* PlayerTable: fetchPlayerData (lines 127-253) and the effect that starts
   and aborts it (lines 255-264). An action is one synchronous segment of a
   fetch; fetches[f].aborted is the signal of the controller of fetch f. *)

\* the setter and callback calls a fetch makes, with the state of its signal
\* and whether a later fetch had been started when it made them
Called(f, fs, whats) ==
    {[fetch |-> f, what |-> w, afterAbort |-> fs[f].aborted,
      superseded |-> f # Len(fs)] : w \in whats}

\* a fetch that never looks at its signal
SignalNeverRead(f) == FALSE

\* signal.aborted as fetchPlayerData reads it
SignalAborted(f) == fetches[f].aborted

\* the cleanup of the effect: controller.abort() of the running fetch
Cleanup(fs) ==
    IF fs = <<>> THEN fs ELSE [fs EXCEPT ![Len(fs)].aborted = TRUE]

\* the effect runs (mount, or a change of userId, leagueId, season or
\* onPlayersLoaded): the cleanup of the previous run, a new controller and
\* the first segment of fetchPlayerData, lines 128-148
RunEffect(paramsGiven) ==
    /\ Len(fetches) < MaxFetches
    /\ fetches = <<>> \/ mounted
    /\ mounted' = TRUE
    /\ LET f == Len(fetches) + 1
           fs == Append(Cleanup(fetches),
                        [at |-> IF paramsGiven THEN "roster" ELSE "done",
                         aborted |-> FALSE])
       IN  /\ fetches' = fs
           /\ error' = IF paramsGiven THEN "null" ELSE "Missing required parameters"
           /\ isFetchingTableData' = paramsGiven
           /\ updates' = updates \cup
                 Called(f, fs, {"setIsFetchingTableData", "setError"} \cup
                               IF paramsGiven THEN {} ELSE {"onPlayersLoaded"})
    /\ UNCHANGED players
    /\ UNCHANGED <<world, seasonVars, formVars, weekVars, got, now, cache, pc, callNo,
                   aborted, failures, acquisitions, leagueDetails, walkVars,
                   tasks, fuseVars, outcome, result, log>>

\* the component unmounts: the cleanup of the effect
Unmount ==
    /\ mounted
    /\ mounted' = FALSE
    /\ fetches' = Cleanup(fetches)
    /\ UNCHANGED <<world, seasonVars, formVars, weekVars, got, now, cache, pc, callNo,
                   aborted, failures, acquisitions, leagueDetails, walkVars,
                   tasks, fuseVars, outcome, result, log,
                   players, error, isFetchingTableData, updates>>

\* the return of lines 150-152, 175-177, 190-192 and 206-208, and the catch
\* and finally blocks under an aborted signal: nothing is set
Quit(f) ==
    /\ fetches' = [fetches EXCEPT ![f].at = "quit"]
    /\ UNCHANGED <<players, error, isFetchingTableData, updates>>

\* the error returns of lines 154-163, 166-176, 178-187, 193-202 and the
\* catch block of lines 235-246, each followed by the finally block
Fail(f, message, clears) ==
    /\ fetches' = [fetches EXCEPT ![f].at = "done"]
    /\ error' = message
    /\ players' = IF clears THEN [rows |-> "empty", by |-> f] ELSE players
    /\ isFetchingTableData' =
          IF SignalAborted(f) THEN isFetchingTableData ELSE FALSE
    /\ updates' = updates \cup
          Called(f, fetches,
                 {"setError", "onPlayersLoaded"}
                 \cup (IF clears THEN {"setPlayers"} ELSE {})
                 \cup (IF SignalAborted(f) THEN {}
                       ELSE {"setIsFetchingTableData"}))

\* getUserRoster settles: lines 149-176
RosterAnswer(f, answer) ==
    /\ f <= Len(fetches)
    /\ fetches[f].at = "roster"
    /\ IF SignalAborted(f) THEN Quit(f)
       ELSE CASE answer = "throws" -> Fail(f, "err.message", TRUE)
              [] answer = "null" -> Fail(f, "Could not fetch roster data", FALSE)
              [] answer = "empty" -> Fail(f, "No players found in roster", TRUE)
              [] OTHER -> /\ fetches' = [fetches EXCEPT ![f].at = "info"]
                          /\ UNCHANGED <<players, error, isFetchingTableData,
                                         updates>>
    /\ UNCHANGED <<world, seasonVars, formVars, weekVars, got, now, cache, pc, callNo,
                   aborted, failures, acquisitions, leagueDetails, walkVars,
                   tasks, fuseVars, outcome, result, log,
                   mounted>>

\* getPlayersInfo settles: lines 178-189
InfoAnswer(f, answer) ==
    /\ f <= Len(fetches)
    /\ fetches[f].at = "info"
    /\ IF SignalAborted(f) THEN Quit(f)
       ELSE CASE answer = "throws" -> Fail(f, "err.message", TRUE)
              [] answer = "null" ->
                    Fail(f, "Could not fetch players info data", FALSE)
              [] OTHER -> /\ fetches' = [fetches EXCEPT ![f].at = "acquisitions"]
                          /\ UNCHANGED <<players, error, isFetchingTableData,
                                         updates>>
    /\ UNCHANGED <<world, seasonVars, formVars, weekVars, got, now, cache, pc, callNo,
                   aborted, failures, acquisitions, leagueDetails, walkVars,
                   tasks, fuseVars, outcome, result, log,
                   mounted>>

\* getPlayerAcquisitions settles: lines 191-252
AcquisitionsAnswer(f, answer) ==
    /\ f <= Len(fetches)
    /\ fetches[f].at = "acquisitions"
    /\ IF SignalAborted(f) THEN Quit(f)
       ELSE CASE answer = "throws" -> Fail(f, "err.message", TRUE)
              [] answer = "null" ->
                    Fail(f, "Could not fetch player acquisitions data", FALSE)
              [] OTHER ->
                    /\ fetches' = [fetches EXCEPT ![f].at = "done"]
                    /\ players' = [rows |-> "mapped", by |-> f]
                    /\ isFetchingTableData' = FALSE
                    /\ updates' = updates \cup
                          Called(f, fetches, {"setPlayers", "onPlayersLoaded",
                                              "setIsFetchingTableData"})
                    /\ UNCHANGED error
    /\ UNCHANGED <<world, seasonVars, formVars, weekVars, got, now, cache, pc, callNo,
                   aborted, failures, acquisitions, leagueDetails, walkVars,
                   tasks, fuseVars, outcome, result, log,
                   mounted>>

NextTable ==
    \/ \E paramsGiven \in BOOLEAN : RunEffect(paramsGiven)
    \/ Unmount
    \/ \E f \in 1..MaxFetches :
          \/ \E answer \in {"throws", "null", "empty", "rosters"} :
                RosterAnswer(f, answer)
          \/ \E answer \in {"throws", "null", "info"} : InfoAnswer(f, answer)
          \/ \E answer \in {"throws", "null", "map"} :
                AcquisitionsAnswer(f, answer)

SpecTable == InitUi /\ [][NextTable]_vars

-----------------------------------------------------------------------------
(* UserInputForm (src/unnamed/part_000): the AbortControllers it creates and
   the reference that holds the current one. An action is a handler with the
   effects its state changes trigger, or the continuation of an await. *)

Usernames == {"alice", "bob"}

UserLeagues == {"L1", "L2"}

\* what the user may type into the season field
SeasonValues == {FIRST_YEAR - 1, FIRST_YEAR}

\* the controllers, the reference and the closure of the league effect
Refs == [controllers |-> controllers, ref |-> backgroundLoadAbortControllerRef,
         effect |-> effectController]

\* backgroundLoadAbortControllerRef.current.abort(), when it is not null
AbortCurrent(k) ==
    IF k.ref = 0 THEN k ELSE [k EXCEPT !.controllers[k.ref] = TRUE]

\* a new controller is installed while the previous one is left running
InstallWithoutAbort(k) ==
    [k EXCEPT !.controllers = Append(k.controllers, FALSE),
              !.ref = Len(k.controllers) + 1]

\* lines 153-157 and 205-209: abort the controller held, create one, hold it
Install(k) ==
    LET a == AbortCurrent(k)
    IN  [a EXCEPT !.controllers = Append(a.controllers, FALSE),
                  !.ref = Len(a.controllers) + 1]

\* lines 45-48: abort the controller held and clear the reference
ClearRef(k) == [AbortCurrent(k) EXCEPT !.ref = 0]

\* lines 227-234: the cleanup of the league effect
CleanupLeagueEffect(k) ==
    IF k.effect = 0 THEN k
    ELSE [k EXCEPT !.controllers[k.effect] = TRUE,
                   !.ref = IF k.ref = k.effect THEN 0 ELSE k.ref,
                   !.effect = 0]

SetRefs(k) ==
    /\ controllers' = k.controllers
    /\ backgroundLoadAbortControllerRef' = k.ref
    /\ effectController' = k.effect

\* the effect of lines 38-49 after a change of username or season, then the
\* cleanup of the league effect, whose dependency leagues has changed
ResetForm(f) ==
    /\ form' = [f EXCEPT !.leagues = {}, !.selectedLeagueId = "",
                         !.userId = "null", !.error = "null",
                         !.erroredLeagueId = "null",
                         !.isLoadingSelectedLeague = FALSE]
    /\ SetRefs(CleanupLeagueEffect(ClearRef(Refs)))

\* handleUsernameChange, line 68 (the field is disabled while isLoading)
HandleUsernameChange(value) ==
    /\ ~form.isLoading
    /\ value # form.username
    /\ ResetForm([form EXCEPT !.username = value])
    /\ UNCHANGED <<world, seasonVars, tableVars, weekVars, got, now, cache, pc,
                   callNo, aborted, failures, acquisitions, leagueDetails,
                   walkVars, tasks, fuseVars, outcome, result, log,
                   submit, loads>>

\* handleSeasonChange, lines 62-66
HandleSeasonChange(value) ==
    /\ ~form.isLoading
    /\ value # form.season
    /\ ResetForm([form EXCEPT !.season = value,
                              !.seasonError = ValidateSeason(value, currentYear)])
    /\ UNCHANGED <<world, seasonVars, tableVars, weekVars, got, now, cache, pc,
                   callNo, aborted, failures, acquisitions, leagueDetails,
                   walkVars, tasks, fuseVars, outcome, result, log,
                   submit, loads>>

\* handleSubmit up to its first await, lines 135-161, and the cleanup of the
\* league effect after setLeagues([]); the button is rendered while no
\* leagues are shown and is disabled by isLoading and seasonError
HandleSubmit ==
    /\ Len(controllers) < MaxControllers
    /\ ~form.isLoading
    /\ form.seasonError = "null"
    /\ form.leagues = {}
    /\ ValidateSeason(form.season, currentYear) = "null"
    /\ form' = [form EXCEPT !.isLoading = TRUE, !.error = "null",
                            !.leagues = {}, !.selectedLeagueId = "",
                            !.isLoadingSelectedLeague = FALSE]
    /\ SetRefs(CleanupLeagueEffect(Install(Refs)))
    /\ submit' = [controller |-> Len(controllers) + 1, at |-> "user"]
    /\ UNCHANGED <<world, seasonVars, tableVars, weekVars, got, now, cache, pc,
                   callNo, aborted, failures, acquisitions, leagueDetails,
                   walkVars, tasks, fuseVars, outcome, result, log,
                   loads>>

\* lines 161-174: getUserIdByUsername settles, then getPlayersInfo
SubmitUserAnswer(answer) ==
    /\ submit.at = "user"
    /\ IF controllers[submit.controller]
       THEN submit' = [submit EXCEPT !.at = "idle"] /\ UNCHANGED form
       ELSE CASE answer = "id" ->
                    /\ form' = [form EXCEPT !.userId = "id"]
                    /\ submit' = [submit EXCEPT !.at = "leagues"]
              [] answer = "null" ->
                    /\ form' = [form EXCEPT !.error = "User not found",
                                            !.isLoading = FALSE]
                    /\ submit' = [submit EXCEPT !.at = "idle"]
              [] OTHER ->
                    /\ form' = [form EXCEPT !.error = "An error occurred",
                                            !.isLoading = FALSE]
                    /\ submit' = [submit EXCEPT !.at = "idle"]
    /\ UNCHANGED <<world, seasonVars, tableVars, weekVars, got, now, cache, pc,
                   callNo, aborted, failures, acquisitions, leagueDetails,
                   walkVars, tasks, fuseVars, outcome, result, log,
                   controllers, backgroundLoadAbortControllerRef,
                   effectController, loads>>

\* lines 169-196: getPlayersInfo and getUserLeagues have settled
SubmitLeaguesAnswer(found) ==
    /\ submit.at = "leagues"
    /\ submit' = [submit EXCEPT !.at = "idle"]
    /\ IF controllers[submit.controller] THEN UNCHANGED form
       ELSE form' = [form EXCEPT
                        !.leagues = found,
                        !.error = IF found = {} THEN "No leagues found"
                                  ELSE form.error,
                        !.isLoading = FALSE]
    /\ UNCHANGED <<world, seasonVars, tableVars, weekVars, got, now, cache, pc,
                   callNo, aborted, failures, acquisitions, leagueDetails,
                   walkVars, tasks, fuseVars, outcome, result, log,
                   controllers, backgroundLoadAbortControllerRef,
                   effectController, loads>>

\* setSelectedLeagueId from the select (disabled by isLoading and
\* isLoadingSelectedLeague) and the league effect, lines 199-236: the
\* cleanup of its previous run, then a new controller
SelectLeague(leagueId) ==
    /\ Len(controllers) < MaxControllers
    /\ leagueId \in form.leagues
    /\ leagueId # form.selectedLeagueId
    /\ ~form.isLoading
    /\ ~form.isLoadingSelectedLeague
    /\ IF form.userId # "null"
       THEN /\ form' = [form EXCEPT !.selectedLeagueId = leagueId,
                                    !.isLoadingSelectedLeague = TRUE,
                                    !.error = "null",
                                    !.erroredLeagueId = "null"]
            /\ LET k == Install(CleanupLeagueEffect(Refs))
               IN  /\ SetRefs([k EXCEPT !.effect = k.ref])
                   /\ loads' = loads \cup {k.ref}
       ELSE /\ form' = [form EXCEPT !.selectedLeagueId = leagueId]
            /\ SetRefs(CleanupLeagueEffect(Refs))
            /\ UNCHANGED loads
    /\ UNCHANGED <<world, seasonVars, tableVars, weekVars, got, now, cache, pc,
                   callNo, aborted, failures, acquisitions, leagueDetails,
                   walkVars, tasks, fuseVars, outcome, result, log,
                   submit>>

\* lines 213-223: loadAcquisitionsForLeague of a league effect settles
LoadAnswer(c, success) ==
    /\ c \in loads
    /\ loads' = loads \ {c}
    /\ IF controllers[c] THEN UNCHANGED form
       ELSE form' = [form EXCEPT
                        !.isLoadingSelectedLeague = FALSE,
                        !.erroredLeagueId = IF success THEN form.erroredLeagueId
                                            ELSE form.selectedLeagueId,
                        !.error = IF success THEN form.error
                                  ELSE "Failed to load full data"]
    /\ UNCHANGED <<world, seasonVars, tableVars, weekVars, got, now, cache, pc,
                   callNo, aborted, failures, acquisitions, leagueDetails,
                   walkVars, tasks, fuseVars, outcome, result, log,
                   controllers, backgroundLoadAbortControllerRef,
                   effectController, submit>>

NextForm ==
    \/ \E value \in Usernames : HandleUsernameChange(value)
    \/ \E value \in SeasonValues : HandleSeasonChange(value)
    \/ HandleSubmit
    \/ \E answer \in {"id", "null", "throws"} : SubmitUserAnswer(answer)
    \/ \E found \in {{}, UserLeagues} : SubmitLeaguesAnswer(found)
    \/ \E leagueId \in UserLeagues : SelectLeague(leagueId)
    \/ \E c \in 1..MaxControllers : \E success \in BOOLEAN :
          LoadAnswer(c, success)

SpecForm == InitUi /\ [][NextForm]_vars

-----------------------------------------------------------------------------
(* Claims *)

Returned(c) == outcome[c] \in {"cached", "computed", "error"}

\* C1: the map returned by getPlayerAcquisitions has exactly the players of
\* the roster passed in as its keys.
C1_KeysAreRosterPlayers ==
    \A c \in Calls : Returned(c) => DOMAIN result[c] = RosterPlayers

Requests(k) ==
    fetchCount[k] + (IF k = TargetLeague THEN retryCount ELSE 0)

NoDuplicates(h) ==
    \A i, j \in 1..Len(h) : h[i].league_id = h[j].league_id => i = j

C4_NeverFoundAllPreviousOwner ==
    [][(/\ pc = "fuse"
        /\ \A i \in 1..Len(tasks) : tasks[i].roster = "none")
       => /\ events = <<>>
          /\ lastEvent = NoEvent
          /\ acquisitions = InitialAcquisitions
          /\ pc' = "idle"
          /\ outcome'[callNo] = "computed"
          /\ DOMAIN result'[callNo] = RosterPlayers
          /\ \A p \in RosterPlayers :
                result'[callNo][p].type = "Previous Owner"]_vars

\* the participant was in no season although the seasons hold picks of the
\* participant, and the call returned
C4_NeverFoundReturned ==
    /\ outcome[1] = "computed"
    /\ Len(world.prev) = 2
    /\ \A k \in 1..2 :
          /\ world.seasons[k].roster = "none"
          /\ \E i \in 1..Len(world.seasons[k].drafts) :
                \E j \in 1..Len(world.seasons[k].drafts[i].picks) :
                    world.seasons[k].drafts[i].picks[j].picked_by = UserId
    /\ \A p \in RosterPlayers : result[1][p].type = "Previous Owner"

FromDraft(rec) == rec.details.slot # <<>>

C6_SlotOfPick ==
    (pc = "fuse" /\ lastEvent.kind = "pick") =>
        LET p == lastEvent.pick.pick_no
            t == IF leagueDetails.ok /\ leagueDetails.total_rosters >= 1
                 THEN leagueDetails.total_rosters ELSE 12
            slot == ((p - 1) % t) + 1
        IN  acquisitions[lastEvent.pick.player_id].details.slot =
                IF slot < 10 THEN <<0, slot>>
                ELSE <<slot \div 10, slot % 10>>

\* pick 25 of a 12-team league was given slot 01
C6_Pick25Slot01 ==
    /\ pc = "fuse"
    /\ lastEvent.kind = "pick"
    /\ lastEvent.pick.pick_no = 25
    /\ leagueDetails.total_rosters = 12
    /\ acquisitions["p1"].details.slot = <<0, 1>>

TxStep ==
    /\ pc = "fuse"
    /\ events # <<>>
    /\ Head(events).kind = "tx"
    /\ ~Head(events).tx.malformed

Qualifies(tx, p) == UserRosterId \in tx.roster_ids /\ tx.adds[p] # 0

ReplacedBy(tx, p) ==
    /\ acquisitions'[p].timestamp = tx.created
    /\ acquisitions'[p].details.date = LocaleDate(tx.created)
    /\ acquisitions'[p].type \in
          {"Trade", "Waiver Wire", "Free Agency", "Unknown Transaction"}

C8_NeverBackToUnknown ==
    [][pc = "fuse" =>
        \A p \in RosterPlayers :
            acquisitions[p].type # "Unknown" =>
                IF pc' = "fuse"
                THEN acquisitions'[p].type # "Unknown"
                ELSE result'[callNo][p].type # "Unknown"]_vars

\* a commissioner transaction replaced the draft record of a player
C8_KnownRecordReplaced ==
    /\ pc = "fuse"
    /\ lastEvent.kind = "tx"
    /\ lastEvent.tx.type = "commissioner"
    /\ userStartupDraftPlayerCount > 0
    /\ acquisitions["p1"].type = "Unknown Transaction"

\* C9: two invocations of getPlayerAcquisitions over identical upstream data
\* return identical maps, whether the second is answered from the cache or
\* recomputed.
C9_Idempotent ==
    /\ (outcome[1] \in {"computed", "error"} /\ outcome[2] = "cached")
            => result[2] = result[1]
    /\ (/\ outcome[1] \in {"computed", "error"}
        /\ outcome[2] \in {"computed", "error"}
        /\ log[1] = log[2])
            => result[2] = result[1]

\* the call in progress ends in this step
CallEnds == callNo' \in Calls /\ outcome'[callNo'] # outcome[callNo']

\* C10: if the signal is aborted at any point before getPlayerAcquisitions
\* returns, the call ends with a cancellation outcome.
C10_AbortedEndsAborted ==
    [][(aborted /\ CallEnds) => outcome'[callNo'] = "aborted"]_vars

\* C10 as amended: if the signal is aborted at any point before
\* getPlayerAcquisitions returns and the call is not answered from the
\* persistent cache, the call ends with a cancellation outcome.
C10_AbortedEndsAbortedUnlessCached ==
    [][(aborted /\ CallEnds /\ outcome'[callNo'] # "cached")
          => outcome'[callNo'] = "aborted"]_vars

\* a call was aborted after it had fetched the league details
C10_AbortedMidCall ==
    /\ outcome[1] = "aborted"
    /\ cache.details.present
    /\ callNo = 1

AcquisitionsWritten ==
    /\ cache'.acq.present
    /\ <<cache'.acq, cache'.acqData>> # <<cache.acq, cache.acqData>>

\* C11: the acquisitions cache key is written only while the call's signal
\* is not aborted, by a call that returns its map; a cancelled call writes
\* nothing to it.
C11_NoWriteWhenAborted ==
    [][/\ AcquisitionsWritten =>
            /\ ~aborted
            /\ CallEnds
            /\ outcome'[callNo'] \in {"computed", "error"}
       /\ (CallEnds /\ outcome'[callNo'] = "aborted") =>
            /\ ~cache'.acq.present \/ cache'.acq = cache.acq
            /\ cache'.acqData = cache.acqData]_vars

\* a call over a lineage of two leagues was cancelled and the acquisitions
\* key is still absent
C11_CancelledNothingCached ==
    /\ outcome[1] = "aborted"
    /\ pc = "idle"
    /\ Len(world.prev) = 2
    /\ cache.details.present
    /\ ~cache.acq.present

SeasonFetches == {"roster", "drafts", "picks", "transactions"}

\* a fetch of the data of the i-th season of the lineage failed in this call
FailedSeason(i) ==
    \E what \in SeasonFetches : <<what, walkResult[i].league_id>> \in log[callNo]

\* the seasons of the lineage, a failed one with no roster, no drafts and
\* no transactions
AsIfNoData ==
    [i \in 1..Len(walkResult) |->
        IF FailedSeason(i)
        THEN [SeasonData(walkResult[i], "none") EXCEPT !.drafts = <<>>,
                                                       !.txs = <<>>]
        ELSE SeasonData(walkResult[i],
                        WorldSeason(walkResult[i].league_id).roster)]

RECURSIVE Fused(_, _, _)
Fused(acq, count, evs) ==
    IF evs = <<>> THEN [acq |-> acq, count |-> count, threw |-> FALSE]
    ELSE LET ev == Head(evs) IN
         IF ev.kind = "pick"
         THEN Fused(ApplyPick(acq, leagueDetails, ev),
                    IF PickApplies(acq, ev.pick)
                       /\ ev.draftType = "Startup Draft"
                    THEN count + 1 ELSE count,
                    Tail(evs))
         ELSE IF ev.tx.malformed
              THEN [acq |-> acq, count |-> count, threw |-> TRUE]
              ELSE Fused(ApplyTx(acq, ev.tx), count, Tail(evs))

\* the map getPlayerAcquisitions returns from the seasons in data
MapOf(data) ==
    LET c == Classify(data)
        f == Fused(InitialAcquisitions, 0,
                   FusionEvents(data, IsRedraft(leagueDetails), c))
    IN  IF f.threw THEN f.acq ELSE ApplyFallback(f.acq, c, f.count)

\* C12: a failure (not a cancellation) while fetching one season's data does
\* not fail the call; the returned map is the one computed as if each failed
\* season had no roster, no drafts and no transactions.
C12_FailedSeasonAsNoData ==
    [][(/\ pc = "fuse"
        /\ CallEnds
        /\ \E i \in 1..Len(walkResult) : FailedSeason(i))
       => /\ outcome'[callNo'] \in {"computed", "error"}
          /\ result'[callNo'] = MapOf(AsIfNoData)]_vars

\* the first metadata request of the walker failed (the fallback of line
\* 728 is tried only then)
FirstFetchFailed == retryCount = 1

Degraded(node) ==
    /\ node.league_id = TargetLeague
    /\ node.season = EmptySeason
    /\ node.previousLeagueId = NoLeague

Reads == got' # got

\* a step of saveToCache
Saves == cache'.acq.present /\ cache' # cache

\* C14: after saveToCache(key, data, duration), getFromCache(key) returns
\* data while the time since the save is less than duration and null from
\* then on; reading an expired entry removes it.
C14_RoundTripWithExpiry ==
    [][/\ Saves => cache'.acq.timestamp = now
       /\ Reads =>
            IF cache.acq.present
               /\ now - cache.acq.timestamp < cache.acq.duration
            THEN got' = Data(acquisitions) /\ cache' = cache
            ELSE got' = Null /\ ~cache'.acq.present]_vars

\* C15: getLeagueHistory returns its nodes oldest first: the last node is
\* the starting league and, of two adjacent nodes, the newer one's
\* previousLeagueId is the older one's league id.
C15_OldestFirst ==
    (pc = "walked" /\ walkResult # <<>>)
        => /\ walkResult[Len(walkResult)].league_id = TargetLeague
           /\ \A i \in 1..(Len(walkResult) - 1) :
                 walkResult[i + 1].previousLeagueId = walkResult[i].league_id

\* a walk of three leagues or more came back with the oldest league first
C15_ChainWalked ==
    /\ pc = "walked"
    /\ Len(walkResult) >= 3
    /\ walkResult[1].league_id = Len(walkResult)
    /\ walkResult[1].previousLeagueId = NoLeague
    /\ walkResult[Len(walkResult)].league_id = TargetLeague

\* the seasons Promise.all delivered in which the user's roster is of one
\* of the kinds
SeasonsWith(kinds) == {i \in 1..Len(tasks) : tasks[i].roster \in kinds}

Oldest(seasons) == CHOOSE i \in seasons : \A j \in seasons : i <= j

\* the classifier chose the oldest of the seasons as the earliest season
EarliestIsOldestOf(seasons) ==
    /\ cls.hasEarliest <=> seasons # {}
    /\ seasons # {} => cls.userEarliestSeason = tasks[Oldest(seasons)].season

\* C16: the participant's earliest season is the first season, oldest to
\* newest, in which the participant's roster holds at least one player; a
\* season with a roster that holds no players is not selected.
C16_EarliestHasPlayers ==
    pc = "fuse" => EarliestIsOldestOf(SeasonsWith({"players"}))

\* C16 as amended: the earliest season is the first season in which the
\* participant has a roster, with or without players.
C16_EarliestHasRoster ==
    pc = "fuse" => EarliestIsOldestOf(SeasonsWith({"players", "empty"}))

\* the user's roster of the older season holds no players and that season
\* is the earliest season
C16_EmptyRosterIsEarliest ==
    /\ pc = "fuse"
    /\ Len(tasks) = 2
    /\ tasks[1].roster = "empty"
    /\ tasks[2].roster = "players"
    /\ cls.userEarliestSeason = tasks[1].season

\* the drafts of the earliest season in which the participant picked
PickedIn ==
    LET seasons == SeasonsWith({"players", "empty"})
    IN  IF seasons = {} THEN {}
        ELSE LET drafts == tasks[Oldest(seasons)].drafts
             IN  {drafts[i] : i \in {j \in 1..Len(drafts) :
                                        UserParticipated(drafts[j])}}

\* declared type startup, or an identifier that contains one of the words
StartupNamed(draft) ==
    draft.type = "startup" \/ draft.id_text \in {"startup", "initial"}

\* the draft of the set with the lowest identifier
Lowest(drafts) ==
    CHOOSE d \in drafts :
        \A e \in drafts : e = d \/ ComparesBefore(d, e)

\* C17: the designated startup draft is among the drafts of the earliest
\* season in which the participant picked: the lowest-identifier one of
\* them that is of type startup or whose identifier contains "startup" or
\* "initial" if there is one, else the lowest-identifier one; none if the
\* participant picked in no draft of that season.
C17_DesignatedDraft ==
    pc = "fuse" =>
        LET named == {d \in PickedIn : StartupNamed(d)}
        IN  cls.designatedDraftId =
                IF PickedIn = {} THEN NoDraft
                ELSE IF named # {} THEN Lowest(named).draft_id
                ELSE Lowest(PickedIn).draft_id

\* the participant picked in two drafts of the earliest season; the second
\* is designated for the word in its identifier
C17_NamedDraftPreferred ==
    /\ pc = "fuse"
    /\ Cardinality(PickedIn) = 2
    /\ \E d \in PickedIn :
          /\ d.id_text = "initial"
          /\ d.type # "startup"
          /\ cls.designatedDraftId = d.draft_id
    /\ \E d \in PickedIn : ~StartupNamed(d)

\* a fusion step that applies a draft pick of the participant
PickStep ==
    /\ pc = "fuse"
    /\ events # <<>>
    /\ Head(events).kind = "pick"

\* the pick belongs to the designated draft of the earliest season and no
\* season before the earliest season holds a draft
OfUncontestedStartupDraft(ev) ==
    LET seasons == SeasonsWith({"players", "empty"})
    IN  /\ seasons # {}
        /\ ev.season = tasks[Oldest(seasons)].season
        /\ ev.draft_id = cls.designatedDraftId
        /\ \A j \in 1..(Oldest(seasons) - 1) : tasks[j].drafts = <<>>

\* C18: in a league that is not redraft, a draft pick is classified Startup
\* Draft (detail "round.slot") iff it belongs to the designated draft of
\* the earliest season and no earlier season holds a draft; every other
\* draft pick is classified Rookie Draft (detail "season round.slot").
C18_StartupIffDesignated ==
    [][(/\ PickStep
        /\ ~IsRedraft(leagueDetails)
        /\ acquisitions' # acquisitions)
       => LET ev == Head(events)
              rec == acquisitions'[ev.pick.player_id]
          IN  IF OfUncontestedStartupDraft(ev)
              THEN /\ rec.type = "Startup Draft"
                   /\ rec.details.fmt = "round.slot"
                   /\ rec.details.season = EmptySeason
              ELSE /\ rec.type = "Rookie Draft"
                   /\ rec.details.fmt = "season round.slot"
                   /\ rec.details.season = ev.season]_vars

\* a pick of the designated draft of the earliest season became a Rookie
\* Draft record because an older season, without the participant, held a
\* draft
C18_DesignatedButRookie ==
    /\ pc = "fuse"
    /\ ~IsRedraft(leagueDetails)
    /\ lastEvent.kind = "pick"
    /\ cls.draftsExistBefore
    /\ lastEvent.season = cls.userEarliestSeason
    /\ lastEvent.draft_id = cls.designatedDraftId
    /\ acquisitions[lastEvent.pick.player_id].type = "Rookie Draft"
    /\ acquisitions[lastEvent.pick.player_id].details.season = lastEvent.season

\* the record is still Unknown or has no acquiredAt
Unsettled(rec) == rec.type = "Unknown" \/ rec.timestamp \in {0, NaN, JsonNull}

\* C19: a draft pick changes a player's record only when that record is
\* still Unknown or has no acquiredAt; it leaves a known record with an
\* acquiredAt as it is, so it never replaces the record of an earlier
\* transaction or of an earlier season's draft.
C19_PickKeepsSettledRecords ==
    [][PickStep =>
          \A p \in DOMAIN acquisitions :
              ~Unsettled(acquisitions[p]) =>
                  /\ p \in DOMAIN acquisitions'
                  /\ acquisitions'[p] = acquisitions[p]]_vars

\* a pick of a later season met the record a trade of the older season had
\* written for the player, and the record is still the trade's
C19_TradeOutlivesLaterPick ==
    /\ pc = "fuse"
    /\ lastEvent.kind = "pick"
    /\ lastEvent.pick.player_id = "p1"
    /\ acquisitions["p1"].type = "Trade"
    /\ JsGreater(JuneFirst(lastEvent.season), acquisitions["p1"].timestamp)

\* C20: a transaction changes the record of a player only if its roster
\* set contains the participant's roster id of the season and the player is
\* a key of its adds; any other transaction leaves the record as it is.
C20_OnlyOwnAddsChangeRecords ==
    [][TxStep =>
          \A p \in Players :
              ~(/\ UserRosterId \in Head(events).tx.roster_ids
                /\ Head(events).tx.adds[p] # 0)
              => IF p \in DOMAIN acquisitions
                 THEN /\ p \in DOMAIN acquisitions'
                      /\ acquisitions'[p] = acquisitions[p]
                 ELSE p \notin DOMAIN acquisitions']_vars

\* a transaction of another roster that adds p1 was fused and p1's record
\* is still the one of the participant's draft pick
C20_ForeignAddIgnored ==
    /\ pc = "fuse"
    /\ lastEvent.kind = "tx"
    /\ UserRosterId \notin lastEvent.tx.roster_ids
    /\ lastEvent.tx.adds["p1"] # 0
    /\ FromDraft(acquisitions["p1"])

\* the kinds of an acquisition record the consumers of the map know
\* (ACQUISITION_COLORS and the sort order of PlayerTable)
EnumeratedKinds ==
    {"Startup Draft", "Rookie Draft", "Trade", "Waiver Wire", "Free Agency",
     "Previous Owner", "Unknown"}

\* C21: every record of the map getPlayerAcquisitions returns has one of the
\* seven enumerated kinds, whatever the type of the transactions the data
\* source delivers.
C21_KindsAreEnumerated ==
    \A c \in Calls :
        Returned(c) =>
            \A p \in DOMAIN result[c] : result[c][p].type \in EnumeratedKinds

\* the last step of a call whose fusion ran through: the fallback and the
\* return
FallbackStep == pc = "fuse" /\ events = <<>>

\* one of the four conditions of the fallback holds
FallbackDue ==
    LET seasons == SeasonsWith({"players", "empty"})
        found == seasons # {}
    IN  \/ found /\ \E j \in 1..(Oldest(seasons) - 1) : tasks[j].drafts # <<>>
        \/ /\ found
           /\ cls.designatedDraftId # NoDraft
           /\ userStartupDraftPlayerCount = 0
        \/ found /\ cls.designatedDraftId = NoDraft
        \/ ~found

\* C22: after fusion a record that is still Unknown becomes Previous Owner
\* iff drafts existed before the participant's earliest season, or the
\* participant was found and a startup draft designated but no startup pick
\* produced, or the participant was found and no startup draft designated,
\* or the participant was never found; the fallback leaves every record of
\* another kind as it is.
C22_FallbackIffDue ==
    [][FallbackStep =>
          \A p \in DOMAIN acquisitions :
              IF acquisitions[p].type = "Unknown"
              THEN IF FallbackDue
                   THEN result'[callNo][p] =
                            [type |-> "Previous Owner",
                             details |-> [NoDetails EXCEPT !.fmt =
                                 "On roster when user took over team"],
                             timestamp |-> 0]
                   ELSE result'[callNo][p] = acquisitions[p]
              ELSE result'[callNo][p] = acquisitions[p]]_vars

\* none of the conditions held: the call returned a player of the startup
\* draft next to a player left Unknown
C22_NotDueLeftUnknown ==
    /\ outcome[1] = "computed"
    /\ IsRedraft(world.details) = FALSE
    /\ result[1]["p1"].type = "Startup Draft"
    /\ result[1]["p2"].type = "Unknown"

\* in this call a draft-picks request or the transactions request of a
\* season failed, and no request of another kind for a season did
UnitFailed(i, what) == <<what, walkResult[i].league_id>> \in log[callNo]

OnlyUnitsFailed ==
    /\ \E i \in 1..Len(walkResult) :
          UnitFailed(i, "picks") \/ UnitFailed(i, "transactions")
    /\ \A i \in 1..Len(walkResult) :
          ~UnitFailed(i, "roster") /\ ~UnitFailed(i, "drafts")

\* the seasons of the lineage, a season of a failed request without its
\* transactions or without the picks of its d-th draft
WithUnitAbsent(d) ==
    [i \in 1..Len(walkResult) |->
        LET full == SeasonData(walkResult[i],
                               WorldSeason(walkResult[i].league_id).roster)
        IN  IF UnitFailed(i, "transactions") THEN [full EXCEPT !.txs = <<>>]
            ELSE IF UnitFailed(i, "picks")
            THEN [full EXCEPT !.drafts =
                    [k \in 1..Len(full.drafts) |->
                        IF k = d THEN [full.drafts[k] EXCEPT !.picks = <<>>]
                        ELSE full.drafts[k]]]
            ELSE full]

\* C23: a failure of one draft-picks request or of one transactions request
\* makes only that unit's data absent: the season's roster, its other
\* drafts and the rest of its data are still classified and fused.
C23_OnlyFailedUnitAbsent ==
    [][(pc = "fuse" /\ CallEnds /\ OnlyUnitsFailed)
       => /\ outcome'[callNo'] \in {"computed", "error"}
          /\ \E d \in 1..2 : result'[callNo'] = MapOf(WithUnitAbsent(d))]_vars

\* C23 as amended: the failure makes the data of the whole season absent,
\* its roster, drafts and transactions included; the other seasons are
\* classified and fused and the call returns.
C23_FailedUnitDropsSeason ==
    [][(pc = "fuse" /\ CallEnds /\ OnlyUnitsFailed)
       => /\ outcome'[callNo'] \in {"computed", "error"}
          /\ result'[callNo'] = MapOf(AsIfNoData)]_vars

\* the transactions request of the newer of two seasons failed: the call
\* returned the waiver claim of the older season for p1 and p2's pick
C23_NewerSeasonLost ==
    /\ outcome[1] = "computed"
    /\ Len(world.prev) = 2
    /\ log[1] = {<<"transactions", TargetLeague>>}
    /\ result[1]["p1"].type = "Waiver Wire"
    /\ result[1]["p1"].timestamp < 2 * YearTicks
    /\ result[1]["p2"].type = "Startup Draft"

\* the weeks queried so far are 1, 2, ... in this order, one request each
AscendingWeeks ==
    pc = "weeks" => Len(weekly) = currentWeek - 1 /\ currentWeek <= 18

\* the answers of the last n weeks queried were empty, all after week 4
EndsWithEmptyWeeks(n) ==
    /\ Len(weekly) - n >= 4
    /\ \A w \in (Len(weekly) - n + 1)..Len(weekly) : ~weekly[w]

\* C24: getLeagueTransactions queries weeks 1 to 18 in ascending order and
\* always weeks 1 to 4; it stops before week 18 only once several weeks in
\* a row after week 4 have returned empty: one empty week after week 4 does
\* not end the scan.
C24_StopsAfterSeveralEmptyWeeks ==
    /\ AscendingWeeks
    /\ pc = "scanned" =>
          /\ Len(weekly) > 4
          /\ Len(weekly) < 18 => EndsWithEmptyWeeks(2)

\* ---------------------------------------------------------------------------
\* C25  Fusion starts only when every per-season task has finished, and the
\* returned map does not depend on the order in which the tasks finished: it
\* is the map obtained by fusing the seasons in lineage order, oldest first.
LineageData == [i \in 1..Len(walkResult) |->
                   SeasonData(walkResult[i],
                              WorldSeason(walkResult[i].league_id).roster)]

C25_FusedInLineageOrder ==
    [][/\ (pc = "tasks" /\ pc' = "fuse")
           => /\ \A i \in 1..Len(tasks) : tasks[i].state # "pending"
              /\ FilterData(tasks) = LineageData
       /\ (pc = "fuse" /\ CallEnds /\ Returned(callNo'))
           => result'[callNo'] = MapOf(LineageData)]_vars

\* the newer season's task has finished while the older season's is pending
C25_NewerFinishedFirst ==
    /\ pc = "tasks"
    /\ Len(tasks) = 2
    /\ tasks[1].state = "pending"
    /\ tasks[2].state = "data"
    /\ \A i \in 1..2 :
          \E d \in DOMAIN WorldSeason(walkResult[i].league_id).drafts :
              UserParticipated(WorldSeason(walkResult[i].league_id).drafts[d])

\* the transactions that qualified for a player: those of a season in which
\* the participant has a roster, with the participant's roster in the roster
\* set and the player in adds
QualifyingTxs(p) ==
    UNION {{LineageData[i].txs[j] :
                j \in {k \in 1..Len(LineageData[i].txs) :
                          /\ ~LineageData[i].txs[k].malformed
                          /\ Qualifies(LineageData[i].txs[k], p)}} :
           i \in {k \in 1..Len(walkResult) : LineageData[k].roster # "none"}}

FromTx(rec) ==
    rec.type \in {"Trade", "Waiver Wire", "Free Agency", "Unknown Transaction"}

\* C26  After fusion, the acquiredAt of every roster player's record is
\* greater than or equal to the createdAt of every transaction that qualified
\* for the player, and a final record that comes from a transaction is the
\* record of the qualifying transaction with the greatest createdAt, whatever
\* the order in which the transactions arrived.
C26_LatestQualifyingWins ==
    [][(pc = "fuse" /\ CallEnds /\ outcome'[callNo'] = "computed")
       => \A p \in RosterPlayers :
             LET rec == result'[callNo'][p]
             IN  /\ \A tx \in QualifyingTxs(p) :
                       /\ rec.timestamp \notin {NaN, JsonNull}
                       /\ rec.timestamp >= tx.created
                 /\ FromTx(rec) =>
                       \E tx \in QualifyingTxs(p) :
                           /\ rec = TxRecord(tx)
                           /\ \A u \in QualifyingTxs(p) :
                                 u.created <= tx.created]_vars

\* a call returned the record of the trade for p1 although a waiver claim
\* created before the trade arrived after it
C26_EarlierArrivedLater ==
    /\ outcome[1] = "computed"
    /\ result[1]["p1"].type = "Trade"
    /\ \E k \in 1..Len(world.seasons) :
          LET txs == world.seasons[k].txs
          IN  /\ Len(txs) = 2
              /\ Qualifies(txs[1], "p1") /\ Qualifies(txs[2], "p1")
              /\ txs[1].created > txs[2].created
              /\ txs[2].created > 0
              /\ result[1]["p1"] = TxRecord(txs[1])

\* C27  A transaction becomes the acquisition record of a player only if its
\* adds maps the player to the participant's roster id of the season; a
\* trade of the participant's roster that added the player to another roster
\* never becomes the player's record.
C27_OnlyAddsToOwnRoster ==
    [][TxStep =>
          \A p \in RosterPlayers :
              (/\ acquisitions'[p] # acquisitions[p]
               /\ acquisitions'[p] = TxRecord(Head(events).tx))
              => Head(events).tx.adds[p] = UserRosterId]_vars

\* the years the season field of the form accepts
AcceptedYears == {y \in SeasonInputs : ValidateSeason(y, currentYear) = "null"}

SeqToSet(seq) == {seq[i] : i \in 1..Len(seq)}

\* C28  getUserSeasons probes exactly the seasons the input form accepts,
\* every year from 2017 through the current year and no other, each once,
\* and returns the years in which the user has a league in descending order.
C28_ProbesAcceptedYears ==
    pc = "yearsDone" =>
        /\ SeqToSet(probedYears) = AcceptedYears
        /\ AcceptedYears = FIRST_YEAR..currentYear
        /\ Len(probedYears) = Cardinality(AcceptedYears)
        /\ \A i \in 1..(Len(sortedYears) - 1) :
              sortedYears[i] > sortedYears[i + 1]
        /\ SeqToSet(sortedYears) \subseteq userLeagueYears

Running == {c \in 1..Len(controllers) : ~controllers[c]}

\* C30  In UserInputForm at most one controller created by the form is
\* un-aborted, and it is the one held in backgroundLoadAbortControllerRef:
\* installing a controller aborts the one installed before, and a change of
\* username or season aborts the current one and clears the reference.
C30_OnlyHeldControllerRuns ==
    [][/\ Running' \subseteq {backgroundLoadAbortControllerRef'}
       /\ Len(controllers') > Len(controllers)
            => /\ backgroundLoadAbortControllerRef' = Len(controllers')
               /\ Running' = {Len(controllers')}
       /\ (form'.username # form.username \/ form'.season # form.season)
            => /\ backgroundLoadAbortControllerRef' = 0
               /\ Running' = {}]_vars

\* a league selection installed a controller over the running controller of
\* the submit, which is now aborted
C30_SelectionAbortedSubmit ==
    /\ Len(controllers) >= 2
    /\ backgroundLoadAbortControllerRef = effectController
    /\ effectController # 0
    /\ submit.controller # 0
    /\ submit.controller # effectController
    /\ controllers[submit.controller]
    /\ ~controllers[effectController]
====
